---- MODULE Spec2Model ----
(***************************************************************************)
(* Fetch-and-notify pipeline of linuxdo_monitor: one tenant (Application)  *)
(* with its storage, cache, fetch job, credential-health job, hot reload   *)
(* and restart.  Text is modelled as sequences of one-character strings.   *)
(***************************************************************************)
EXTENDS Integers, Sequences, FiniteSets, TLC

VARIABLES
    db_posts,            \* posts table: ids persisted for the forum
    db_notifications,    \* notifications table: [chat_id, post_id, keyword]
    db_subscriptions,    \* subscriptions table: <<chat_id, keyword>>
    db_subscribe_all,    \* subscribe_all table: chat ids
    db_user_subs,        \* user_subscriptions table: <<chat_id, author>>
    db_blocked,          \* blocked_users table: chat ids
    cache,               \* Application.cache (AppCache over a MemoryCache)
    config,              \* Application.forum_config (fields the core reads)
    pc,                  \* position of the fetch job: idle, fetching, dispatch, pause
    pending_tasks,       \* fetch_and_notify.pending_tasks of the running cycle
    batch_start,         \* index i of the batch loop (0-based)
    task_status,         \* per task: pending, inflight, ok, failed
    total_sent,          \* fetch_and_notify.total_sent
    fetch_fail_count,    \* Application._fetch_fail_count
    fetch_fail_notified, \* Application._fetch_fail_notified
    cookie_fail_count,   \* Application._cookie_fail_count
    cookie_notify_round, \* Application._cookie_notify_round
    last_job,            \* observer: <<kind, failed probes, error_type>> (and,
                         \* for a health run, the results of its probes) of the
                         \* job step that ran last
    last_alerts,         \* observer: admin alerts that step issued
    posts,               \* fetch_and_notify.posts: the list the cycle fetched
    keywords,            \* fetch_and_notify.keywords: the list the cycle read
    known_before,        \* observer: db_posts when the running cycle planned
    sent_count,          \* observer: successful sends per <<chat, post>>
    failed_pairs,        \* observer: <<chat, post>> whose send failed
    fail_run,            \* observer: failing cycles since the last success
    outage_since_success,\* observer: outage alerts since the last success
    outage_since_reset,  \* observer: same, also cleared by reload/restart
    cred_since_pass,     \* observer: confirmed failures since the last pass
    cred_since_reset,    \* observer: same, also cleared by reload/restart
    budget,              \* remaining steps of each bounded kind
    apps,                \* MultiForumApplication.apps: each tenant's runtime
    _tasks,              \* MultiForumApplication._tasks: each tenant's loop
    _running,            \* MultiForumApplication._running
    main_task,           \* position of _run_multi_async
    scenario,            \* how each tenant's collaborators behave in this run
    fetch_call,          \* one DiscourseSource.fetch call in progress
    match_call,          \* one KeywordMatcher call and what it met
    send_call,           \* one TelegramBot._send_with_retry call in progress
    app_caches,          \* the tenants' AppCache objects and their backends
    in_flight,           \* one tenant's fetch cycles in flight, by who started them
    run_call,            \* MultiForumApplication.run in its single forum mode
    session_call,        \* one _fetch_via_flaresolverr call and the proxy's sessions
    scheduling,          \* one tenant's scheduler, its jobs and the configuration
    identity             \* the ids the sources gave the forum's topics, cycle by cycle

vars == <<db_posts, db_notifications, db_subscriptions, db_subscribe_all,
          db_user_subs, db_blocked, cache, config, pc, pending_tasks,
          batch_start, task_status, total_sent, fetch_fail_count,
          fetch_fail_notified, cookie_fail_count, cookie_notify_round,
          last_job, last_alerts, posts, keywords, known_before,
          sent_count, failed_pairs, fail_run, outage_since_success, outage_since_reset,
          cred_since_pass, cred_since_reset, budget,
          apps, _tasks, _running, main_task, scenario, fetch_call, match_call,
          send_call, app_caches, in_flight, run_call, session_call,
          scheduling, identity>>

core_vars == <<db_posts, db_notifications, db_subscriptions, db_subscribe_all,
               db_user_subs, db_blocked, cache, config, pc, pending_tasks,
               batch_start, task_status, total_sent, fetch_fail_count,
               fetch_fail_notified, cookie_fail_count, cookie_notify_round,
               last_job, last_alerts, posts, keywords, known_before,
               sent_count, failed_pairs, fail_run, outage_since_success,
               outage_since_reset, cred_since_pass, cred_since_reset, budget>>
supervisor_vars == <<apps, _tasks, _running, main_task, scenario>>
entry_vars == <<run_call, session_call, scheduling, identity>>
later_vars == <<send_call, app_caches, in_flight, entry_vars>>
aux_vars == <<supervisor_vars, fetch_call, match_call, later_vars>>

----------------------------------------------------------------------------
(* Bounds of the exploration *)

MaxCycles == 2
MaxMutations == 1
MaxAlertCycles == 11
MaxReloads == 1
MaxRestarts == 1
MaxHealthRuns == 5
MaxTenantFails == 3
MaxSupRestarts == 8
MaxSubscribeSteps == 2
MaxSendCalls == 2
MaxSendFailures == 2
MaxOverlapCycles == 3
MaxSessionCalls == 2
MaxJobReloads == 2
MaxJobRestarts == 1
MaxIdentityCycles == 3

(* Program constants *)

BATCH_SIZE == 25
MAX_KEYWORDS_PER_USER == 5
MAX_AUTHORS_PER_USER == 5
MAX_KEYWORD_LENGTH == 50
MAX_REGEX_LENGTH == 200

_fetch_fail_threshold == 5
_cookie_fail_threshold == 5

initial_restart_delay == 5
max_restart_delay == 300

max_retries == 3
_direct_retries == 3
refresh_rounds == 3

MAX_RETRIES == 3

None == <<"None">>
ALL_TAG == <<"__ALL__">>

----------------------------------------------------------------------------
(* Text *)

LowerChar(c) ==
    CASE c = "G" -> "g"
      [] c = "P" -> "p"
      [] c = "T" -> "t"
      [] c = "N" -> "n"
      [] c = "E" -> "e"
      [] c = "O" -> "o"
      [] OTHER -> c

Lower(s) == [i \in DOMAIN s |-> LowerChar(s[i])]

\* s in t  (substring test of Python's `in` on str)
Contains(t, s) ==
    \E off \in 0..(Len(t) - Len(s)) :
        \A i \in 1..Len(s) : t[off + i] = s[i]

RegexChars == {"^", "$", ".", "*", "+", "?", "{", "}", "[", "]", "(", ")", "|", "\\"}

is_regex_pattern(keyword) == \E i \in DOMAIN keyword : keyword[i] \in RegexChars

\* nesting depth of the parentheses after the first n characters, -1 once a
\* closing parenthesis has no opener
RECURSIVE ParenDepth(_, _)
ParenDepth(p, n) ==
    IF n = 0 THEN 0
    ELSE LET d == ParenDepth(p, n - 1)
         IN  IF d < 0 THEN d
             ELSE IF p[n] = "(" THEN d + 1
             ELSE IF p[n] = ")" THEN d - 1
             ELSE d

\* The regular expressions modelled are a fragment of Python's: literals,
\* ".", groups, "*" and "+" directly after a literal, a dot or a group, and
\* counted repeats {n} whose count is too large to compile.

Quantifiers == {"*", "+"}
DecimalDigits == <<"0", "1", "2", "3", "4", "5", "6", "7", "8", "9">>

\* sre's MAXREPEAT (2^32 - 1) in decimal digits
MAXREPEAT == <<"4", "2", "9", "4", "9", "6", "7", "2", "9", "5">>

DigitVal(c) == CHOOSE n \in 0..9 : DecimalDigits[n + 1] = c

\* int(ds) >= MAXREPEAT for a string of decimal digits
Oversized(ds) ==
    LET nz == {i \in DOMAIN ds : ds[i] # "0"}
        f  == IF nz = {} THEN Len(ds) + 1 ELSE CHOOSE i \in nz : \A k \in nz : i <= k
        sg == SubSeq(ds, f, Len(ds))
    IN  \/ Len(sg) > Len(MAXREPEAT)
        \/ /\ Len(sg) = Len(MAXREPEAT)
           /\ \/ sg = MAXREPEAT
              \/ \E i \in DOMAIN sg :
                    /\ \A m \in 1..(i - 1) : sg[m] = MAXREPEAT[m]
                    /\ DigitVal(sg[i]) > DigitVal(MAXREPEAT[i])

\* index of the "}" closing a counted repeat {n} that opens at i, 0 if p[i]
\* does not open one
RepeatClose(p, i) ==
    LET ks == {k \in (i + 2)..Len(p) :
                  /\ p[i] = "{" /\ p[k] = "}"
                  /\ \A m \in (i + 1)..(k - 1) : \E n \in DOMAIN DecimalDigits : DecimalDigits[n] = p[m]}
    IN  IF ks = {} THEN 0 ELSE CHOOSE k \in ks : TRUE

\* least element of a set of indices, Len(p) + 1 for the empty set
FirstOf(p, S) == IF S = {} THEN Len(p) + 1 ELSE CHOOSE i \in S : \A k \in S : i <= k

\* re.compile(pattern, re.IGNORECASE): the parser reads the pattern from the
\* left and raises at the first thing it cannot accept
re_compile(p) ==
    LET stray == {n \in DOMAIN p : ParenDepth(p, n) < 0}
        bare  == {n \in DOMAIN p : p[n] \in Quantifiers /\ (n = 1 \/ p[n - 1] = "(")}
        over  == {i \in DOMAIN p : RepeatClose(p, i) # 0
                                   /\ Oversized(SubSeq(p, i + 1, RepeatClose(p, i) - 1))}
    IN  IF FirstOf(p, over) < FirstOf(p, stray \cup bare) THEN "OverflowError"
        ELSE IF stray \cup bare # {} \/ ParenDepth(p, Len(p)) # 0 THEN "re.error"
        ELSE "compiled"

\* re.compile returns a pattern object
RegexCompiles(p) == re_compile(p) = "compiled"

\* index of the ")" closing the group whose body starts at n, at depth d
RECURSIVE CloseOf(_, _, _)
CloseOf(p, n, d) ==
    IF n > Len(p) THEN 0
    ELSE IF p[n] = "(" THEN CloseOf(p, n + 1, d + 1)
    ELSE IF p[n] = ")" THEN IF d = 1 THEN n ELSE CloseOf(p, n + 1, d - 1)
    ELSE CloseOf(p, n + 1, d)

CharMatches(c, t) == c = "." \/ LowerChar(c) = LowerChar(t)

\* the positions of the title reached from the positions S by matching the
\* item p[i..e] once (MatchItem), any number of times (MatchStar), and by
\* matching the items of p[i..j] one after the other (MatchSeq)
RECURSIVE MatchItem(_, _, _, _, _)
RECURSIVE MatchStar(_, _, _, _, _)
RECURSIVE MatchSeq(_, _, _, _, _)

MatchItem(p, i, e, title, S) ==
    IF p[i] = "(" THEN MatchSeq(p, i + 1, e - 1, title, S)
    ELSE {x + 1 : x \in {y \in S : y < Len(title) /\ CharMatches(p[i], title[y + 1])}}

MatchStar(p, i, e, title, S) ==
    LET more == S \cup MatchItem(p, i, e, title, S)
    IN  IF more = S THEN S ELSE MatchStar(p, i, e, title, more)

MatchSeq(p, i, j, title, S) ==
    IF i > j \/ S = {} THEN S
    ELSE LET e == IF p[i] = "(" THEN CloseOf(p, i + 1, 1) ELSE i
             q == IF e < j /\ p[e + 1] \in Quantifiers THEN p[e + 1] ELSE ""
             n == IF q = "" THEN e + 1 ELSE e + 2
             after == IF q = "" THEN MatchItem(p, i, e, title, S)
                      ELSE IF q = "+"
                      THEN MatchStar(p, i, e, title, MatchItem(p, i, e, title, S))
                      ELSE MatchStar(p, i, e, title, S)
         IN  MatchSeq(p, n, j, title, after)

\* compiled.search(title) under re.IGNORECASE
RegexSearch(p, title) ==
    \E off \in 0..Len(title) : MatchSeq(p, 1, Len(p), title, {off}) # {}

\* KeywordMatcher.match: the value it returns, or the exception that leaves
\* it.  search_raises says whether compiled.search raises in this call.
match_outcome(title, keyword, search_raises) ==
    LET substring == Contains(Lower(title), Lower(keyword))
    IN  IF is_regex_pattern(keyword)
        THEN CASE re_compile(keyword) = "OverflowError" ->
                    [raised |-> "OverflowError", result |-> "none"]
               [] re_compile(keyword) = "re.error" ->
                    [raised |-> "none", result |-> substring]
               [] OTHER ->
                    [raised |-> "none",
                     result |-> IF search_raises THEN substring
                                ELSE RegexSearch(keyword, title)]
        ELSE [raised |-> "none", result |-> substring]

\* the value of match for a keyword whose compilation returns or raises
\* re.error, as all keywords of the fetch pipeline do
match(title, keyword) == match_outcome(title, keyword, FALSE).result

find_matching_keywords(title, kws) ==
    SelectSeq(kws, LAMBDA kw : match(title, kw))

----------------------------------------------------------------------------
(* Universe of inputs *)

ChatIds == {1, 2}

KeywordInputs == { <<"G", "p", "t">>, <<"g", ".", "t">> }
AuthorInputs  == { <<"N", "e", "o">> }

StoredKeywords == { Lower(k) : k \in KeywordInputs }
StoredAuthors  == { Lower(a) : a \in AuthorInputs }

\* posts the forum can publish: id, title, author (None for the plain feed)
PostA == [id |-> 1, title |-> <<"G", "P", "T">>, author |-> <<"N", "e", "o">>]
PostB == [id |-> 2, title |-> <<"g", "a", "t">>, author |-> None]
PostUniverse == {PostA, PostB}
PostIds == {p.id : p \in PostUniverse}

SeqsUpTo(S, n) == UNION {[1..k -> S] : k \in 0..n}

\* all listings of a set without repetition (row order of a SELECT that has
\* no ORDER BY)
Orders(S) == {q \in [1..Cardinality(S) -> S] : \A i, j \in DOMAIN q : i # j => q[i] # q[j]}

\* listing of a set of chat ids in ascending order
RECURSIVE Ascending(_)
Ascending(S) ==
    IF S = {} THEN <<>>
    ELSE LET m == CHOOSE x \in S : \A y \in S : x <= y
         IN  <<m>> \o Ascending(S \ {m})

Range(q) == {q[i] : i \in DOMAIN q}

----------------------------------------------------------------------------
(* Storage reads (database.py) *)

\* fault variant: the lookup never finds the post
post_exists_never(posts_tbl, post_id) == FALSE

post_exists(posts_tbl, post_id) == post_id \in posts_tbl

notification_exists_for_post(chat_id, post_id) ==
    \E r \in db_notifications : r.chat_id = chat_id /\ r.post_id = post_id

DbKeywords == {row[2] : row \in db_subscriptions}
DbAuthors  == {row[2] : row \in db_user_subs}

\* fault variant: the query leaves out the users flagged blocked
get_subscribers_by_keyword_unblocked(keyword) ==
    Ascending({row[1] : row \in {r \in db_subscriptions :
                                    r[2] = Lower(keyword) /\ r[1] \notin db_blocked}})

\* SELECT chat_id FROM subscriptions WHERE keyword = ? AND forum = ?
get_subscribers_by_keyword(keyword) ==
    Ascending({row[1] : row \in {r \in db_subscriptions : r[2] = Lower(keyword)}})

get_subscribers_by_author(author) ==
    Ascending({row[1] : row \in {r \in db_user_subs : r[2] = Lower(author)}})

get_all_subscribe_all_users == Ascending(db_subscribe_all)

----------------------------------------------------------------------------
(* Cache (cache.py).  An entry is <<>> when absent and <<value>> when set. *)

EmptyCache ==
    [keywords |-> <<>>, subscribe_all |-> <<>>, authors |-> <<>>,
     subscribers |-> [k \in StoredKeywords |-> <<>>],
     author_subscribers |-> [a \in StoredAuthors |-> <<>>]]

CacheKeys ==
    {<<"keywords", <<>> >>, <<"subscribe_all", <<>> >>, <<"authors", <<>> >>}
    \cup {<<"subscribers", k>> : k \in StoredKeywords}
    \cup {<<"author_subscribers", a>> : a \in StoredAuthors}

\* MemoryCache.get: <<>> for an absent key and for a key whose TTL has run
\* out; `expired` names the keys whose TTL has run out at the time of the read
CacheGet(entry, key, expired) == IF key \in expired THEN <<>> ELSE entry

\* Read-through getters of Application: the value read and the cache after it.
\* kwOrder / authorOrder are the row orders the SELECT DISTINCT returns.
_get_keywords_cached(c, kwOrder, expired) ==
    LET cached == CacheGet(c.keywords, <<"keywords", <<>> >>, expired)
    IN  IF ~config.cache_enabled THEN [val |-> kwOrder, cache |-> c]
        ELSE IF cached # <<>> THEN [val |-> cached[1], cache |-> c]
        ELSE [val |-> kwOrder, cache |-> [c EXCEPT !.keywords = <<kwOrder>>]]

_get_subscribe_all_users_cached(c, expired) ==
    LET cached == CacheGet(c.subscribe_all, <<"subscribe_all", <<>> >>, expired)
    IN  IF ~config.cache_enabled THEN [val |-> get_all_subscribe_all_users, cache |-> c]
        ELSE IF cached # <<>> THEN [val |-> cached[1], cache |-> c]
        ELSE [val |-> get_all_subscribe_all_users,
              cache |-> [c EXCEPT !.subscribe_all = <<get_all_subscribe_all_users>>]]

_get_subscribed_authors_cached(c, authorOrder, expired) ==
    LET cached == CacheGet(c.authors, <<"authors", <<>> >>, expired)
    IN  IF ~config.cache_enabled THEN [val |-> authorOrder, cache |-> c]
        ELSE IF cached # <<>> THEN [val |-> cached[1], cache |-> c]
        ELSE [val |-> authorOrder, cache |-> [c EXCEPT !.authors = <<authorOrder>>]]

_get_subscribers_cached(c, keyword, expired) ==
    LET cached == CacheGet(c.subscribers[keyword], <<"subscribers", keyword>>, expired)
    IN  IF ~config.cache_enabled
        THEN [val |-> get_subscribers_by_keyword(keyword), cache |-> c]
        ELSE IF cached # <<>> THEN [val |-> cached[1], cache |-> c]
        ELSE [val |-> get_subscribers_by_keyword(keyword),
              cache |-> [c EXCEPT !.subscribers[keyword] =
                                      <<get_subscribers_by_keyword(keyword)>>]]

_get_author_subscribers_cached(c, author, expired) ==
    LET cached == CacheGet(c.author_subscribers[author], <<"author_subscribers", author>>, expired)
    IN  IF ~config.cache_enabled
        THEN [val |-> get_subscribers_by_author(author), cache |-> c]
        ELSE IF cached # <<>> THEN [val |-> cached[1], cache |-> c]
        ELSE [val |-> get_subscribers_by_author(author),
              cache |-> [c EXCEPT !.author_subscribers[author] =
                                      <<get_subscribers_by_author(author)>>]]

----------------------------------------------------------------------------
(* Planner: the per-post part of fetch_and_notify.  An accumulator carries   *)
(* the tasks appended so far, the per-post notified_users set and the cache. *)

Task(chat_id, post, keyword) == [chat_id |-> chat_id, post_id |-> post.id, keyword |-> keyword]

AuthorTag(post) == <<"@">> \o post.author

\* subscribe-all loop over the first n entries of subscribe_all_users
RECURSIVE PlanSubscribeAll(_, _, _)
PlanSubscribeAll(subscribe_all_users, n, post) ==
    IF n = 0 THEN [tasks |-> <<>>, notified |-> {}]
    ELSE LET acc == PlanSubscribeAll(subscribe_all_users, n - 1, post)
             chat_id == subscribe_all_users[n]
         IN  IF notification_exists_for_post(chat_id, post.id)
             THEN [acc EXCEPT !.notified = @ \cup {chat_id}]
             ELSE [tasks |-> Append(acc.tasks, Task(chat_id, post, None)),
                   notified |-> acc.notified \cup {chat_id}]

\* body shared by the author loop and the keyword loop: first n subscribers
RECURSIVE PlanSubscribers(_, _, _, _, _, _)
PlanSubscribers(subscribers, n, acc, post, keyword, subscribe_all_set) ==
    IF n = 0 THEN acc
    ELSE LET prev == PlanSubscribers(subscribers, n - 1, acc, post, keyword, subscribe_all_set)
             chat_id == subscribers[n]
         IN  IF chat_id \in prev.notified THEN prev
             ELSE IF chat_id \in subscribe_all_set THEN prev
             ELSE IF notification_exists_for_post(chat_id, post.id)
                  THEN [prev EXCEPT !.notified = @ \cup {chat_id}]
             ELSE [prev EXCEPT !.tasks = Append(@, Task(chat_id, post, keyword)),
                               !.notified = @ \cup {chat_id}]

PlanAuthor(acc, c, post, subscribed_authors, subscribe_all_set, expired) ==
    IF post.author # None /\ post.author # <<>> /\ subscribed_authors # <<>>
       /\ Lower(post.author) \in {Lower(a) : a \in Range(subscribed_authors)}
    THEN LET got == _get_author_subscribers_cached(c, Lower(post.author), expired)
             res == PlanSubscribers(got.val, Len(got.val), acc, post,
                                    AuthorTag(post), subscribe_all_set)
         IN  [tasks |-> res.tasks, notified |-> res.notified, cache |-> got.cache]
    ELSE [tasks |-> acc.tasks, notified |-> acc.notified, cache |-> c]

\* keyword loop over the first n matched keywords
RECURSIVE PlanKeywords(_, _, _, _, _, _)
PlanKeywords(matched_keywords, n, acc, post, subscribe_all_set, expired) ==
    IF n = 0 THEN acc
    ELSE LET prev == PlanKeywords(matched_keywords, n - 1, acc, post, subscribe_all_set, expired)
             keyword == matched_keywords[n]
             got == _get_subscribers_cached(prev.cache, keyword, expired)
             res == PlanSubscribers(got.val, Len(got.val),
                                    [tasks |-> prev.tasks, notified |-> prev.notified],
                                    post, keyword, subscribe_all_set)
         IN  [tasks |-> res.tasks, notified |-> res.notified, cache |-> got.cache]

\* fault variant: the keyword loop starts from an empty notified_users
PlanPost_forgetful(post, c, kws, subscribe_all_users, subscribed_authors, expired) ==
    LET subscribe_all_set == Range(subscribe_all_users)
        a1 == PlanSubscribeAll(subscribe_all_users, Len(subscribe_all_users), post)
        a2 == PlanAuthor(a1, c, post, subscribed_authors, subscribe_all_set, expired)
        a3 == IF kws # <<>>
              THEN LET matched_keywords == find_matching_keywords(post.title, kws)
                   IN  PlanKeywords(matched_keywords, Len(matched_keywords),
                                    [a2 EXCEPT !.notified = {}],
                                    post, subscribe_all_set, expired)
              ELSE a2
    IN  [tasks |-> a3.tasks, cache |-> a3.cache]

\* fault variant: the keyword loop runs before the author loop
PlanPost_keyword_first(post, c, kws, subscribe_all_users, subscribed_authors, expired) ==
    LET subscribe_all_set == Range(subscribe_all_users)
        a1 == PlanSubscribeAll(subscribe_all_users, Len(subscribe_all_users), post)
        a2 == IF kws # <<>>
              THEN LET matched_keywords == find_matching_keywords(post.title, kws)
                   IN  PlanKeywords(matched_keywords, Len(matched_keywords),
                                    [tasks |-> a1.tasks, notified |-> a1.notified, cache |-> c],
                                    post, subscribe_all_set, expired)
              ELSE [tasks |-> a1.tasks, notified |-> a1.notified, cache |-> c]
        a3 == PlanAuthor(a2, a2.cache, post, subscribed_authors, subscribe_all_set, expired)
    IN  [tasks |-> a3.tasks, cache |-> a3.cache]

\* tasks planned for one new post, and the cache afterwards
PlanPost(post, c, kws, subscribe_all_users, subscribed_authors, expired) ==
    LET subscribe_all_set == Range(subscribe_all_users)
        a1 == PlanSubscribeAll(subscribe_all_users, Len(subscribe_all_users), post)
        a2 == PlanAuthor(a1, c, post, subscribed_authors, subscribe_all_set, expired)
        a3 == IF kws # <<>>
              THEN LET matched_keywords == find_matching_keywords(post.title, kws)
                   IN  PlanKeywords(matched_keywords, Len(matched_keywords), a2,
                                    post, subscribe_all_set, expired)
              ELSE a2
    IN  [tasks |-> a3.tasks, cache |-> a3.cache]

\* the loop over the fetched posts: first n posts
RECURSIVE PlanPosts(_, _, _, _, _, _, _, _)
PlanPosts(fetched, n, c, posts_tbl, kws, subscribe_all_users, subscribed_authors, expired) ==
    IF n = 0 THEN [tasks |-> <<>>, cache |-> c, posts_tbl |-> posts_tbl]
    ELSE LET prev == PlanPosts(fetched, n - 1, c, posts_tbl, kws,
                               subscribe_all_users, subscribed_authors, expired)
             post == fetched[n]
         IN  IF post_exists(prev.posts_tbl, post.id) THEN prev
             ELSE LET pl == PlanPost(post, prev.cache, kws,
                                     subscribe_all_users, subscribed_authors, expired)
                  IN  [tasks |-> prev.tasks \o pl.tasks,
                       cache |-> pl.cache,
                       posts_tbl |-> prev.posts_tbl \cup {post.id}]

----------------------------------------------------------------------------
(* State *)

ConfigSpace ==
    [source_type : {"rss", "discourse"}, discourse_cookie : BOOLEAN,
     cache_enabled : BOOLEAN]

\* create_source(config) returns a source (it raises ValueError otherwise)
\* fault variant: create_source raises for every configuration
create_source_raises(cfg) == FALSE

\* create_source returns a source (it raises ValueError for a discourse forum
\* without a cookie)
create_source_ok(cfg) == cfg.source_type = "discourse" => cfg.discourse_cookie

Pairs == ChatIds \X PostIds

\* no supervisor
NoSupervisor ==
    /\ apps = <<>>
    /\ _tasks = <<>>
    /\ _running = FALSE
    /\ main_task = "none"
    /\ scenario = <<>>

\* no source call and no matcher call under observation
NoEntry ==
    run_call = <<>> /\ session_call = <<>> /\ scheduling = <<>> /\ identity = <<>>
NoLater == send_call = <<>> /\ app_caches = <<>> /\ in_flight = <<>> /\ NoEntry
NoCalls == fetch_call = <<>> /\ match_call = <<>> /\ NoLater

\* one tenant: everything except the storage, the configuration, the budget
\* and the observer of the sends
InitTenant ==
    /\ db_posts = {}
    /\ db_notifications = {}
    /\ db_blocked = {}
    /\ cache = EmptyCache
    /\ pc = "idle"
    /\ pending_tasks = <<>>
    /\ batch_start = 0
    /\ task_status = <<>>
    /\ total_sent = 0
    /\ fetch_fail_count = 0
    /\ fetch_fail_notified = FALSE
    /\ cookie_fail_count = 0
    /\ cookie_notify_round = 0
    /\ last_job = <<"none", 0, "">>
    /\ last_alerts = <<>>
    /\ posts = <<>>
    /\ keywords = <<>>
    /\ known_before = {}
    /\ failed_pairs = {}
    /\ fail_run = 0
    /\ outage_since_success = 0
    /\ outage_since_reset = 0
    /\ cred_since_pass = 0
    /\ cred_since_reset = 0

InitCore == InitTenant /\ sent_count = [pr \in Pairs |-> 0]

InitRuntime == InitCore /\ NoSupervisor /\ NoCalls

\* Application._notify_admin: the alerts a job step hands to the bot
_notify_admin(alerts, message) == Append(alerts, message)

----------------------------------------------------------------------------
(* Fetch job: Application.fetch_and_notify, split at its suspension points *)

\* the scheduler tick (or the initial fetch of start_async) enters the job and
\* hands source.fetch to the executor
StartCycle ==
    /\ pc = "idle"
    /\ budget.cycles > 0
    /\ budget' = [budget EXCEPT !.cycles = @ - 1]
    /\ pc' = "fetching"
    /\ UNCHANGED <<db_posts, db_notifications, db_subscriptions, db_subscribe_all,
                   db_user_subs, db_blocked, cache, config, pending_tasks,
                   batch_start, task_status, total_sent, fetch_fail_count,
                   fetch_fail_notified, cookie_fail_count, cookie_notify_round,
                   last_job, last_alerts, posts, keywords, known_before, sent_count,
                   failed_pairs, fail_run, outage_since_success,
                   outage_since_reset, cred_since_pass, cred_since_reset>>
    /\ UNCHANGED aux_vars

\* fault variant: the planned posts are not added to the posts table
Plan_no_add_post(fetched, kwOrder, authorOrder, expired) ==
    LET k  == _get_keywords_cached(cache, kwOrder, expired)
        a  == _get_subscribe_all_users_cached(k.cache, expired)
        au == _get_subscribed_authors_cached(a.cache, authorOrder, expired)
        pl == PlanPosts(fetched, Len(fetched), au.cache, db_posts, k.val, a.val, au.val, expired)
    IN  [pl EXCEPT !.posts_tbl = db_posts]

\* source.fetch returned `fetched`: read the subscriber sets, then plan
Plan(fetched, kwOrder, authorOrder, expired) ==
    LET k  == _get_keywords_cached(cache, kwOrder, expired)
        a  == _get_subscribe_all_users_cached(k.cache, expired)
        au == _get_subscribed_authors_cached(a.cache, authorOrder, expired)
    IN  PlanPosts(fetched, Len(fetched), au.cache, db_posts, k.val, a.val, au.val, expired)

FetchOk(fetched, kwOrder, authorOrder, expired) ==
    /\ pc = "fetching"
    /\ keywords' = _get_keywords_cached(cache, kwOrder, expired).val
    /\ LET pl == Plan(fetched, kwOrder, authorOrder, expired)
       IN  /\ db_posts' = pl.posts_tbl
           /\ cache' = pl.cache
           /\ pending_tasks' = pl.tasks
           /\ task_status' = [i \in 1..Len(pl.tasks) |-> "pending"]
    /\ batch_start' = 0
    /\ total_sent' = 0
    /\ pc' = "dispatch"
    /\ posts' = fetched
    /\ known_before' = db_posts
    /\ UNCHANGED <<db_notifications, db_subscriptions, db_subscribe_all,
                   db_user_subs, db_blocked, config, fetch_fail_count,
                   fetch_fail_notified, cookie_fail_count, cookie_notify_round,
                   last_job, last_alerts, sent_count, failed_pairs, fail_run,
                   outage_since_success, outage_since_reset, cred_since_pass,
                   cred_since_reset, budget>>
    /\ UNCHANGED aux_vars

BatchOf(i) == {j \in 1..Len(pending_tasks) : i < j /\ j <= i + BATCH_SIZE}

\* _send_batch: asyncio.gather starts send_one for every task of the batch
StartBatch ==
    /\ pc = "dispatch"
    /\ batch_start < Len(pending_tasks)
    /\ \A j \in BatchOf(batch_start) : task_status[j] = "pending"
    /\ task_status' = [j \in DOMAIN task_status |->
                          IF j \in BatchOf(batch_start) THEN "inflight" ELSE task_status[j]]
    /\ UNCHANGED <<db_posts, db_notifications, db_subscriptions, db_subscribe_all,
                   db_user_subs, db_blocked, cache, config, pc, pending_tasks,
                   batch_start, total_sent, fetch_fail_count,
                   fetch_fail_notified, cookie_fail_count, cookie_notify_round,
                   last_job, last_alerts, posts, keywords, known_before, sent_count,
                   failed_pairs, fail_run, outage_since_success,
                   outage_since_reset, cred_since_pass, cred_since_reset, budget>>
    /\ UNCHANGED aux_vars

SendOutcomes == {"sent", "forbidden", "error", "raised"}

\* what send_one writes for a delivered task
NotificationRow(t) ==
    [chat_id |-> t.chat_id, post_id |-> t.post_id,
     keyword |-> IF t.keyword # None THEN t.keyword ELSE ALL_TAG]

\* fault variant: every completed send counts as a success
success_always(outcome) == TRUE

\* send_one.success: what bot.send_notification[_all] returned
success(outcome) == outcome = "sent"

\* send_one resumes with the outcome of bot.send_notification[_all]:
\*   sent               the send returned True and add_notification ran
\*   forbidden          Forbidden: the bot flags the user blocked, returns False
\*   error              retries exhausted or TelegramError: returns False
\*   raised             the send raised: caught, send_one returns False
send_one(i, outcome) ==
    /\ pc = "dispatch"
    /\ i \in DOMAIN task_status
    /\ task_status[i] = "inflight"
    /\ LET t  == pending_tasks[i]
           pr == <<t.chat_id, t.post_id>>
       IN  /\ db_notifications' =
                 IF success(outcome) THEN db_notifications \cup {NotificationRow(t)}
                 ELSE db_notifications
           /\ db_blocked' =
                 IF outcome = "forbidden" THEN db_blocked \cup {t.chat_id} ELSE db_blocked
           /\ task_status' = [task_status EXCEPT ![i] = IF success(outcome) THEN "ok" ELSE "failed"]
           /\ sent_count' =
                 IF outcome = "sent"
                 THEN [sent_count EXCEPT ![pr] = @ + 1] ELSE sent_count
           /\ failed_pairs' =
                 IF outcome \in {"forbidden", "error", "raised"}
                 THEN failed_pairs \cup {pr} ELSE failed_pairs
    /\ UNCHANGED <<db_posts, db_subscriptions, db_subscribe_all, db_user_subs,
                   cache, config, pc, pending_tasks, batch_start, total_sent,
                   fetch_fail_count, fetch_fail_notified, cookie_fail_count,
                   cookie_notify_round, last_job, last_alerts, posts, keywords,
                   known_before, fail_run, outage_since_success,
                   outage_since_reset, cred_since_pass, cred_since_reset, budget>>
    /\ UNCHANGED aux_vars

\* fault variant: every result of the gather is counted
success_count_any(batch) == Cardinality(batch)

\* _send_batch.success_count: the results of the gather that are True
success_count(batch) == Cardinality({j \in batch : task_status[j] = "ok"})

\* fault variant: the dispatcher pauses after every batch
pause_due_always(i, n) == TRUE

\* if i + BATCH_SIZE < len(pending_tasks): the rate-limit pause is owed
pause_due(i, n) == i + BATCH_SIZE < n

\* gather returned: count the successes, move to the pause or the next batch
EndBatch ==
    /\ pc = "dispatch"
    /\ batch_start < Len(pending_tasks)
    /\ \A j \in BatchOf(batch_start) : task_status[j] \in {"ok", "failed"}
    /\ total_sent' = total_sent + success_count(BatchOf(batch_start))
    /\ batch_start' = batch_start + BATCH_SIZE
    /\ pc' = IF pause_due(batch_start, Len(pending_tasks)) THEN "pause" ELSE "dispatch"
    /\ UNCHANGED <<db_posts, db_notifications, db_subscriptions, db_subscribe_all,
                   db_user_subs, db_blocked, cache, config, pending_tasks,
                   task_status, fetch_fail_count,
                   fetch_fail_notified, cookie_fail_count, cookie_notify_round,
                   last_job, last_alerts, posts, keywords, known_before, sent_count,
                   failed_pairs, fail_run, outage_since_success,
                   outage_since_reset, cred_since_pass, cred_since_reset, budget>>
    /\ UNCHANGED aux_vars

\* asyncio.sleep(BATCH_INTERVAL) returns: the loop goes on to the next batch
batch_interval ==
    /\ pc = "pause"
    /\ pc' = "dispatch"
    /\ UNCHANGED <<db_posts, db_notifications, db_subscriptions, db_subscribe_all,
                   db_user_subs, db_blocked, cache, config, pending_tasks,
                   batch_start, task_status, total_sent, fetch_fail_count,
                   fetch_fail_notified, cookie_fail_count, cookie_notify_round,
                   last_job, last_alerts, posts, keywords, known_before, sent_count,
                   failed_pairs, fail_run, outage_since_success,
                   outage_since_reset, cred_since_pass, cred_since_reset, budget>>
    /\ UNCHANGED aux_vars

\* fault variant: a recovery alert after any failure
recovery_alert_due_any(count, notified) == count > 0

\* the success branch owes a recovery alert
recovery_alert_due(count, notified) == count > 0 /\ notified

\* success branch after the last batch
CycleSuccess ==
    /\ pc = "dispatch"
    /\ batch_start >= Len(pending_tasks)
    /\ IF fetch_fail_count > 0
       THEN /\ last_alerts' =
                  IF recovery_alert_due(fetch_fail_count, fetch_fail_notified)
                  THEN _notify_admin(<<>>, "fetch_recovered") ELSE <<>>
            /\ fetch_fail_count' = 0
            /\ fetch_fail_notified' = FALSE
       ELSE /\ last_alerts' = <<>>
            /\ UNCHANGED <<fetch_fail_count, fetch_fail_notified>>
    /\ last_job' = <<"fetch_ok", 0, "">>
    /\ pc' = "idle"
    /\ pending_tasks' = <<>>
    /\ task_status' = <<>>
    /\ batch_start' = 0
    /\ total_sent' = 0
    /\ posts' = <<>>
    /\ keywords' = <<>>
    /\ known_before' = {}
    /\ fail_run' = 0
    /\ outage_since_success' = 0
    /\ outage_since_reset' = 0
    /\ UNCHANGED <<db_posts, db_notifications, db_subscriptions, db_subscribe_all,
                   db_user_subs, db_blocked, cache, config, cookie_fail_count,
                   cookie_notify_round, sent_count, failed_pairs,
                   cred_since_pass, cred_since_reset, budget>>
    /\ UNCHANGED aux_vars

\* fault variant: the alerted flag is not consulted
outage_alert_due_repeat(count, notified) == count >= _fetch_fail_threshold

\* the except branch owes an outage alert
outage_alert_due(count, notified) == count >= _fetch_fail_threshold /\ ~notified

\* `except Exception` of fetch_and_notify, entered by a cycle that raised
\* (kind: "fetch_failed" when source.fetch raised, "cycle_raised" when a later
\* statement of the try block did)
except_branch(kind) ==
    /\ fetch_fail_count' = fetch_fail_count + 1
    /\ LET alert == outage_alert_due(fetch_fail_count + 1, fetch_fail_notified)
       IN  /\ fetch_fail_notified' = (fetch_fail_notified \/ alert)
           /\ last_alerts' = IF alert THEN _notify_admin(<<>>, "fetch_outage") ELSE <<>>
           /\ outage_since_success' = outage_since_success + (IF alert THEN 1 ELSE 0)
           /\ outage_since_reset' = outage_since_reset + (IF alert THEN 1 ELSE 0)
    /\ last_job' = <<kind, 0, "">>
    /\ fail_run' = fail_run + 1
    /\ pc' = "idle"

\* source.fetch raised: the except branch
FetchFail ==
    /\ pc = "fetching"
    /\ except_branch("fetch_failed")
    /\ UNCHANGED <<db_posts, db_notifications, db_subscriptions, db_subscribe_all,
                   db_user_subs, db_blocked, cache, config, pending_tasks,
                   batch_start, task_status, total_sent, cookie_fail_count,
                   cookie_notify_round, posts, keywords, known_before, sent_count,
                   failed_pairs, cred_since_pass, cred_since_reset, budget>>
    /\ UNCHANGED aux_vars

\* the exception leaves the job uncaught: the scheduler logs it, the locals
\* of the cycle are gone and the counters are as they were
escapes(kind) ==
    /\ last_job' = <<kind, 0, "">>
    /\ last_alerts' = <<>>
    /\ pc' = "idle"
    /\ UNCHANGED <<fetch_fail_count, fetch_fail_notified, outage_since_success,
                   outage_since_reset, fail_run>>

\* fault variant: the try block ends after source.fetch
except_catches_fetch_only(stage) == stage = "fetch"

\* the try block of fetch_and_notify spans the whole body: the fetch, the
\* reads of the subscriber sets, the planning loop and the dispatch loop
except_catches(stage) == TRUE

\* source.fetch returned `fetched`; the reads of the subscriber sets or the
\* planning loop raised (a database error, an error escaping the matcher)
\* when `planned` posts had been planned and persisted
plan_raised(fetched, planned, kwOrder, authorOrder, expired) ==
    /\ pc = "fetching"
    /\ planned \in 0..Len(fetched)
    /\ LET k  == _get_keywords_cached(cache, kwOrder, expired)
           a  == _get_subscribe_all_users_cached(k.cache, expired)
           au == _get_subscribed_authors_cached(a.cache, authorOrder, expired)
           pl == PlanPosts(fetched, planned, au.cache, db_posts, k.val, a.val,
                           au.val, expired)
       IN  /\ db_posts' = pl.posts_tbl
           /\ cache' = pl.cache
    /\ IF except_catches("plan") THEN except_branch("cycle_raised")
       ELSE escapes("cycle_raised")
    /\ UNCHANGED <<db_notifications, db_subscriptions, db_subscribe_all,
                   db_user_subs, db_blocked, config, pending_tasks,
                   batch_start, task_status, total_sent, cookie_fail_count,
                   cookie_notify_round, posts, keywords, known_before, sent_count,
                   failed_pairs, cred_since_pass, cred_since_reset, budget>>
    /\ UNCHANGED aux_vars

\* a statement of the dispatch loop raised between two batches: the tasks
\* not yet dispatched are dropped with the locals of the cycle
dispatch_raised ==
    /\ pc \in {"dispatch", "pause"}
    /\ \A j \in DOMAIN task_status : task_status[j] # "inflight"
    /\ IF except_catches("dispatch") THEN except_branch("cycle_raised")
       ELSE escapes("cycle_raised")
    /\ pending_tasks' = <<>>
    /\ task_status' = <<>>
    /\ batch_start' = 0
    /\ total_sent' = 0
    /\ posts' = <<>>
    /\ keywords' = <<>>
    /\ known_before' = {}
    /\ UNCHANGED <<db_posts, db_notifications, db_subscriptions, db_subscribe_all,
                   db_user_subs, db_blocked, cache, config, cookie_fail_count,
                   cookie_notify_round, sent_count, failed_pairs,
                   cred_since_pass, cred_since_reset, budget>>
    /\ UNCHANGED aux_vars

----------------------------------------------------------------------------
(* Credential-health job: Application._check_cookie_task *)

\* what one probe request can come back with
ProbeResponses ==
    [exc : {TRUE}, status : {0}, body : {"none"}]
    \cup [exc : {FALSE}, status : {200, 403, 500},
          body : {"ok", "not_logged_in", "errors", "html"}]

\* web_flask.test_cookie: the error_type of the result ("valid" when valid)
test_cookie(resp) ==
    IF resp.exc THEN "service_error"
    ELSE IF resp.body = "html" THEN "service_error"
    ELSE IF resp.status = 200
         THEN IF resp.body \in {"not_logged_in", "errors"} THEN "cookie_invalid"
              ELSE "valid"
    ELSE IF resp.status = 403 THEN "service_error"
    ELSE IF resp.body \in {"not_logged_in", "errors"} THEN "cookie_invalid"
    ELSE "service_error"

_check_cookie_valid(resp) ==
    IF config.source_type # "discourse" THEN "valid"
    ELSE IF ~config.discourse_cookie THEN "cookie_invalid"
    ELSE test_cookie(resp)

\* number of failed probes of the loop `for i in range(3)`, which breaks at
\* the first valid probe
RECURSIVE ProbeFailures(_, _)
ProbeFailures(results, i) ==
    IF i > Len(results) THEN 0
    ELSE IF results[i] = "valid" THEN 0
    ELSE 1 + ProbeFailures(results, i + 1)

\* fault variant: the loop has no break
probes_run_all(fail_count) == 3

\* the probes the loop runs: one more than the failures before the break,
\* three when none was valid
probes_run(fail_count) == IF fail_count = 3 THEN 3 ELSE fail_count + 1

\* fault variant: service errors are escalated like an invalid credential
health_outcome_escalate(fail_count, error_type) ==
    IF fail_count = 3 THEN "cookie_invalid" ELSE "pass"

\* the branch _check_cookie_task takes after its probes
health_outcome(fail_count, error_type) ==
    IF fail_count = 3
    THEN IF error_type = "service_error" THEN "service_error" ELSE "cookie_invalid"
    ELSE "pass"

\* fault variant: every passing run sends the reassurance alert
reassurance_due_always(count) == TRUE

\* a passing run owes the reassurance alert
reassurance_due(count) == count > 0

HealthFrame ==
    UNCHANGED <<aux_vars, db_posts, db_notifications, db_subscriptions, db_subscribe_all,
                db_user_subs, db_blocked, cache, config, pc, pending_tasks,
                batch_start, task_status, total_sent, fetch_fail_count,
                fetch_fail_notified, cookie_notify_round, posts, keywords,
                known_before, sent_count, failed_pairs, fail_run,
                outage_since_success, outage_since_reset>>

\* resps: what the (up to) three probes of this run come back with
_check_cookie_task(resps) ==
    /\ budget.health > 0
    /\ budget' = [budget EXCEPT !.health = @ - 1]
    /\ IF config.source_type # "discourse"
       THEN /\ last_job' = <<"health_skipped", 0, "">>
            /\ last_alerts' = <<>>
            /\ UNCHANGED <<cookie_fail_count, cred_since_pass, cred_since_reset>>
       ELSE LET results    == [i \in 1..3 |-> _check_cookie_valid(resps[i])]
                fail_count == ProbeFailures(results, 1)
                probes     == SubSeq(results, 1, probes_run(fail_count))
                error_type == results[3]
                outcome    == health_outcome(fail_count, error_type)
            IN  /\ last_job' = <<"health", fail_count,
                                  IF fail_count = 3 THEN error_type ELSE "", probes>>
                /\ CASE outcome = "service_error" ->
                          /\ last_alerts' = <<>>
                          /\ UNCHANGED <<cookie_fail_count, cred_since_pass, cred_since_reset>>
                     [] outcome = "cookie_invalid" ->
                          /\ cookie_fail_count' = cookie_fail_count + 1
                          /\ last_alerts' =
                                _notify_admin(_notify_admin(_notify_admin(<<>>,
                                    "cookie_invalid_1"), "cookie_invalid_2"), "cookie_invalid_3")
                          /\ cred_since_pass' = cred_since_pass + 1
                          /\ cred_since_reset' = cred_since_reset + 1
                     [] outcome = "pass" ->
                          /\ IF reassurance_due(cookie_fail_count)
                             THEN /\ last_alerts' = _notify_admin(<<>>, "cookie_recovered")
                                  /\ cookie_fail_count' = 0
                             ELSE /\ last_alerts' = <<>>
                                  /\ UNCHANGED cookie_fail_count
                          /\ cred_since_pass' = 0
                          /\ cred_since_reset' = 0
    /\ HealthFrame

----------------------------------------------------------------------------
(* Hot reload and restart *)

\* Application.reload_config with the forum's new configuration; when
\* create_source raises, only the configuration has been replaced
reload_config(new_forum_config) ==
    /\ budget.reloads > 0
    /\ budget' = [budget EXCEPT !.reloads = @ - 1]
    /\ config' = new_forum_config
    /\ IF create_source_ok(new_forum_config)
       THEN /\ cookie_fail_count' = 0
            /\ cookie_notify_round' = 0
            /\ fetch_fail_count' = 0
            /\ fetch_fail_notified' = FALSE
            /\ cache' = EmptyCache
            /\ outage_since_reset' = 0
            /\ cred_since_reset' = 0
       ELSE UNCHANGED <<cookie_fail_count, cookie_notify_round, fetch_fail_count,
                        fetch_fail_notified, cache, outage_since_reset,
                        cred_since_reset>>
    /\ UNCHANGED <<db_posts, db_notifications, db_subscriptions, db_subscribe_all,
                   db_user_subs, db_blocked, pc, pending_tasks, batch_start,
                   task_status, total_sent, last_job, last_alerts, posts, keywords,
                   known_before, sent_count, failed_pairs, fail_run,
                   outage_since_success, cred_since_pass>>
    /\ UNCHANGED aux_vars

\* restart by the supervised loop: stop_async shuts the scheduler down, which
\* cancels a fetch job in flight, then Application._reset_state
_reset_state ==
    /\ budget.restarts > 0
    /\ budget' = [budget EXCEPT !.restarts = @ - 1]
    /\ cookie_fail_count' = 0
    /\ cookie_notify_round' = 0
    /\ fetch_fail_count' = 0
    /\ fetch_fail_notified' = FALSE
    /\ cache' = EmptyCache
    /\ pc' = "idle"
    /\ pending_tasks' = <<>>
    /\ task_status' = <<>>
    /\ batch_start' = 0
    /\ total_sent' = 0
    /\ posts' = <<>>
    /\ keywords' = <<>>
    /\ known_before' = {}
    /\ outage_since_reset' = 0
    /\ cred_since_reset' = 0
    /\ UNCHANGED <<db_posts, db_notifications, db_subscriptions, db_subscribe_all,
                   db_user_subs, db_blocked, config, last_job, last_alerts,
                   sent_count, failed_pairs, fail_run, outage_since_success,
                   cred_since_pass>>
    /\ UNCHANGED aux_vars

----------------------------------------------------------------------------
(* Supervisor: MultiForumApplication with one task per tenant.  Each tenant *)
(* is seen as the supervised loop sees it: its bot (updater), its scheduler,*)
(* its fetch job and the failure state the job keeps.                       *)

Tenants == {"a", "b"}

\* how a tenant's collaborators behave for the whole run
Behaviours == {"healthy", "fetch_raises", "start_raises", "updater_stops"}

Min(a, b) == IF a < b THEN a ELSE b

\* an Application after __init__ or _reset_state
NewApp ==
    [application |-> FALSE, updater |-> FALSE, scheduler |-> FALSE,
     job |-> "idle", _fetch_fail_count |-> 0, _fetch_fail_notified |-> FALSE,
     job_error |-> FALSE]

\* a task of _run_single_app at the top of its loop
NewTask ==
    [at |-> "start", restart_delay |-> initial_restart_delay, restarts |-> 0,
     waited |-> 0, cancel |-> FALSE]

Ended(task) == task.at \in {"done", "cancelled"}

\* fault variant: liveness is judged by the failure counter as well
is_running_strict(app) ==
    app.application /\ app.updater /\ app._fetch_fail_count = 0

\* Application.is_running
is_running(app) == app.application /\ app.updater

\* fault variant: fetch_and_notify without its except branch
fetch_and_notify_uncaught(app, raised) ==
    [app |-> [app EXCEPT !.job = "idle", !.job_error = raised],
     escaped |-> raised]

\* Application.fetch_and_notify as the supervisor sees it: the failure state
\* it leaves and whether an error leaves the coroutine
fetch_and_notify(app, raised) ==
    [app |-> IF raised
             THEN [app EXCEPT
                     !._fetch_fail_count = @ + 1,
                     !._fetch_fail_notified =
                         @ \/ outage_alert_due(app._fetch_fail_count + 1, @),
                     !.job = "idle"]
             ELSE [app EXCEPT !._fetch_fail_count = 0,
                              !._fetch_fail_notified = FALSE,
                              !.job = "idle"],
     escaped |-> FALSE]

fetch_raises(t) == scenario[t] = "fetch_raises"

SupervisorFrame ==
    UNCHANGED <<core_vars, fetch_call, match_call, scenario, later_vars>>

\* the task of tenant t runs its next step (no cancellation is pending)
Runs(t, at) == _tasks[t].at = at /\ ~_tasks[t].cancel

\* top of the while loop, then start_async up to its initial fetch: the
\* scheduler is started before the initial fetch is awaited, so the interval
\* trigger can fire while that fetch is still in flight
start_async(t) ==
    /\ Runs(t, "start")
    /\ IF ~_running
       THEN /\ _tasks' = [_tasks EXCEPT ![t].at = "done"]
            /\ UNCHANGED apps
       ELSE IF scenario[t] = "start_raises"
       THEN /\ apps' = [apps EXCEPT ![t].application = TRUE]
            /\ _tasks' = [_tasks EXCEPT ![t].at = "stop"]
       ELSE /\ apps' = [apps EXCEPT ![t].application = TRUE,
                                    ![t].updater = TRUE,
                                    ![t].scheduler = TRUE]
            /\ _tasks' = [_tasks EXCEPT ![t].at = "initial_fetch"]
    /\ UNCHANGED <<_running, main_task>>
    /\ SupervisorFrame

\* the initial fetch at the end of start_async returns; it is a direct call,
\* not an instance of the scheduler's job
initial_fetch(t) ==
    /\ Runs(t, "initial_fetch")
    /\ apps[t]._fetch_fail_count < MaxTenantFails
    /\ LET r == fetch_and_notify(apps[t], fetch_raises(t))
       IN  /\ apps' = [apps EXCEPT ![t] = [r.app EXCEPT !.job = apps[t].job]]
           /\ _tasks' = [_tasks EXCEPT
                           ![t].at = IF r.escaped THEN "stop" ELSE "poll"]
    /\ UNCHANGED <<_running, main_task>>
    /\ SupervisorFrame

\* fault variant: one trigger serves all tenants and waits for all of them
job_due_all_up(t) ==
    /\ apps[t].scheduler /\ apps[t].job = "idle"
    /\ \A u \in Tenants : is_running(apps[u])

\* the scheduler's interval trigger starts the fetch job, unless an instance
\* of the job is still running (max_instances is left at 1)
job_due(t) == apps[t].scheduler /\ apps[t].job = "idle"

fetch_job_fires(t) ==
    /\ job_due(t)
    /\ apps[t]._fetch_fail_count < MaxTenantFails
    /\ apps' = [apps EXCEPT ![t].job = "fetching"]
    /\ UNCHANGED <<_tasks, _running, main_task>>
    /\ SupervisorFrame

\* the fetch job returns to the scheduler
fetch_job_returns(t) ==
    /\ apps[t].scheduler /\ apps[t].job = "fetching"
    /\ apps[t]._fetch_fail_count < MaxTenantFails
    /\ apps' = [apps EXCEPT ![t] = fetch_and_notify(apps[t], fetch_raises(t)).app]
    /\ UNCHANGED <<_tasks, _running, main_task>>
    /\ SupervisorFrame

\* the bot's updater stops on its own
updater_stops(t) ==
    /\ scenario[t] = "updater_stops"
    /\ apps[t].updater
    /\ apps' = [apps EXCEPT ![t].updater = FALSE]
    /\ UNCHANGED <<_tasks, _running, main_task>>
    /\ SupervisorFrame

\* the liveness poll leaves its loop
poll(t) ==
    /\ Runs(t, "poll")
    /\ ~(_running /\ is_running(apps[t]))
    /\ _tasks' = [_tasks EXCEPT ![t].at = IF ~_running THEN "done" ELSE "stop"]
    /\ UNCHANGED <<apps, _running, main_task>>
    /\ SupervisorFrame

\* Application.stop_async, then the check of _running that follows it; the
\* scheduler's shutdown cancels a fetch job in flight
stop_async(t) ==
    /\ Runs(t, "stop")
    /\ apps' = [apps EXCEPT ![t].updater = FALSE, ![t].scheduler = FALSE,
                            ![t].job = "idle"]
    /\ _tasks' = [_tasks EXCEPT ![t].at = IF ~_running THEN "done" ELSE "sleep"]
    /\ UNCHANGED <<_running, main_task>>
    /\ SupervisorFrame

\* fault variant: the doubling has no cap
next_restart_delay_uncapped(restart_delay) == restart_delay * 2

\* fault variant: past the cap the backoff starts over
next_restart_delay_wraps(restart_delay) ==
    IF restart_delay * 2 > max_restart_delay THEN initial_restart_delay
    ELSE restart_delay * 2

\* restart_delay = min(restart_delay * 2, max_restart_delay)
next_restart_delay(restart_delay) == Min(restart_delay * 2, max_restart_delay)

\* asyncio.sleep(restart_delay) returns, then the backoff is advanced
sleep_restart_delay(t) ==
    /\ Runs(t, "sleep")
    /\ _tasks' = [_tasks EXCEPT
                    ![t].at = "reset",
                    ![t].waited = _tasks[t].restart_delay,
                    ![t].restart_delay = next_restart_delay(@)]
    /\ UNCHANGED <<apps, _running, main_task>>
    /\ SupervisorFrame

\* Application._reset_state of tenant t, then back to the top of the loop
reset_for_restart(t) ==
    /\ Runs(t, "reset")
    /\ _tasks[t].restarts < MaxSupRestarts
    /\ apps' = [apps EXCEPT ![t] = NewApp]
    /\ _tasks' = [_tasks EXCEPT ![t].at = "start", ![t].restarts = @ + 1]
    /\ UNCHANGED <<_running, main_task>>
    /\ SupervisorFrame

\* _run_multi_async leaves its wait loop (cancelled, or no task is alive) and
\* runs its finally block up to the gather
shutdown(cancelled) ==
    /\ main_task = "wait"
    /\ cancelled \/ \A t \in Tenants : Ended(_tasks[t])
    /\ _running' = FALSE
    /\ _tasks' = [t \in Tenants |->
                    IF Ended(_tasks[t]) THEN _tasks[t]
                    ELSE [_tasks[t] EXCEPT !.cancel = TRUE]]
    /\ main_task' = "gather"
    /\ UNCHANGED apps
    /\ SupervisorFrame

\* CancelledError is raised at the await the task is suspended in; it is not
\* an Exception, so no except clause of the loop or of stop_async takes it
task_cancelled(t) ==
    /\ _tasks[t].cancel
    /\ ~Ended(_tasks[t])
    /\ _tasks' = [_tasks EXCEPT ![t].at = "cancelled"]
    /\ UNCHANGED <<apps, _running, main_task>>
    /\ SupervisorFrame

\* asyncio.gather(*self._tasks, return_exceptions=True) returns
gather_returns ==
    /\ main_task = "gather"
    /\ \A t \in Tenants : Ended(_tasks[t])
    /\ main_task' = "returned"
    /\ UNCHANGED <<apps, _tasks, _running>>
    /\ SupervisorFrame

----------------------------------------------------------------------------
(* Authenticated source: one call of DiscourseSource.fetch, one step per    *)
(* request it issues.  The session requests of the proxy (create, destroy)  *)
(* are part of the proxied attempt.  The refresh inside _fetch_direct needs *)
(* allow_refresh together with the drissionpage mode, which no caller       *)
(* passes, so _fetch_direct is its retry loop only.                         *)

Outcomes == {"posts", "403", "timeout"}

NoError == [strategy |-> "none", kind |-> "none", n |-> 0]

\* a DiscourseSource after __init__
NewSource(cf_bypass_mode, flaresolverr_url) ==
    [cf_bypass_mode |-> cf_bypass_mode, flaresolverr_url |-> flaresolverr_url,
     at |-> "idle", caller |-> "none", attempt |-> 0, round |-> 0,
     last_error |-> NoError, requests |-> <<>>, errors |-> <<>>,
     by |-> "none", surfaced |-> NoError]

SourceFrame == UNCHANGED <<core_vars, supervisor_vars, match_call, later_vars>>

\* the request now issued, and the error it meets under a failing outcome
Issued(strategy) == Append(fetch_call.requests, strategy)
Met(strategy, outcome) ==
    [strategy |-> strategy, kind |-> outcome, n |-> Len(fetch_call.requests) + 1]

\* fault variant: every failure counts as a rejection
is_403_any(e) == TRUE

is_403(e) == e.kind = "403"

\* DiscourseSource.fetch: the dispatch on the bypass mode and the proxy url
fetch ==
    /\ fetch_call.at = "idle"
    /\ fetch_call' =
         IF fetch_call.cf_bypass_mode = "drissionpage"
         THEN [fetch_call EXCEPT !.at = "direct", !.caller = "first", !.attempt = 1]
         ELSE IF fetch_call.flaresolverr_url
         THEN [fetch_call EXCEPT !.at = "flaresolverr", !.attempt = 1]
         ELSE [fetch_call EXCEPT !.at = "direct", !.caller = "fetch", !.attempt = 1]
    /\ SourceFrame

\* fault variant: the plain feed is fetched whatever the proxy returned
flaresolverr_next_always_rss(outcome, attempt) ==
    IF outcome # "posts" /\ attempt < max_retries THEN "flaresolverr" ELSE "rss"

\* fault variant: the retry loop runs one attempt more than max_retries
flaresolverr_next_extra_attempt(outcome, attempt) ==
    IF outcome = "posts" THEN "returned"
    ELSE IF attempt < max_retries + 1 THEN "flaresolverr"
    ELSE "rss"

\* where _fetch_via_flaresolverr goes after an attempt
flaresolverr_next(outcome, attempt) ==
    IF outcome = "posts" THEN "returned"
    ELSE IF attempt < max_retries THEN "flaresolverr"
    ELSE "rss"

\* one attempt of the retry loop of _fetch_via_flaresolverr
_fetch_via_flaresolverr(outcome) ==
    /\ fetch_call.at = "flaresolverr"
    /\ LET e == Met("flaresolverr", outcome)
           next == flaresolverr_next(outcome, fetch_call.attempt)
       IN  fetch_call' =
             IF outcome = "posts"
             THEN [fetch_call EXCEPT !.requests = Issued("flaresolverr"),
                                     !.by = "flaresolverr", !.at = next]
             ELSE [fetch_call EXCEPT !.requests = Issued("flaresolverr"),
                                     !.errors = Append(@, e),
                                     !.last_error = e,
                                     !.attempt = @ + 1,
                                     !.at = next]
    /\ SourceFrame

\* the loop of _fetch_via_drissionpage moves to its next round, or to the feed
NextRound(call) ==
    IF call.round < refresh_rounds
    THEN [call EXCEPT !.at = "refresh", !.round = @ + 1]
    ELSE [call EXCEPT !.at = "rss"]

\* _fetch_direct raised e: what its caller does with it
DirectRaised(call, e) ==
    CASE call.caller = "fetch" ->
           [call EXCEPT !.at = "raised", !.surfaced = e]
      [] call.caller = "first" ->
           IF ~is_403(e)
           THEN [call EXCEPT !.last_error = e, !.at = "raised", !.surfaced = e]
           ELSE [call EXCEPT !.last_error = e, !.at = "refresh", !.round = 1]
      [] call.caller = "refreshed" ->
           NextRound([call EXCEPT !.last_error = e])

\* fault variant: a rejection is retried like any other failure
retry_direct_through_403(attempt, e) == attempt < _direct_retries

\* if attempt < self._direct_retries and not is_403: sleep and continue
retry_direct(attempt, e) == attempt < _direct_retries /\ ~is_403(e)

\* one attempt of the retry loop of _fetch_direct
_fetch_direct(outcome) ==
    /\ fetch_call.at = "direct"
    /\ LET e == Met("direct", outcome)
           issued == [fetch_call EXCEPT !.requests = Issued("direct")]
       IN  fetch_call' =
             IF outcome = "posts"
             THEN [issued EXCEPT !.by = "direct", !.at = "returned"]
             ELSE IF retry_direct(fetch_call.attempt, e)
             THEN [issued EXCEPT !.errors = Append(@, e), !.attempt = @ + 1]
             ELSE DirectRaised([issued EXCEPT !.errors = Append(@, e)], e)
    /\ SourceFrame

\* one round of the refresh loop of _fetch_via_drissionpage up to its direct
\* request: _refresh_cookie_via_drissionpage returns a cookie or None
_refresh_cookie_via_drissionpage(refreshed_cookie) ==
    /\ fetch_call.at = "refresh"
    /\ LET issued == [fetch_call EXCEPT !.requests = Issued("refresh")]
       IN  fetch_call' =
             IF refreshed_cookie
             THEN [issued EXCEPT !.at = "direct", !.caller = "refreshed",
                                 !.attempt = 1]
             ELSE NextRound(issued)
    /\ SourceFrame

\* fault variant: the error of the plain feed is the one raised
rss_fallback_raises_own(last_error, e) == e

\* what the except clause of the plain-feed fallback raises
rss_fallback_raises(last_error, e) == last_error

\* the plain-feed fallback: RSSSource(...).fetch()
RSSSource_fetch(outcome) ==
    /\ fetch_call.at = "rss"
    /\ LET e == Met("rss", outcome)
           issued == [fetch_call EXCEPT !.requests = Issued("rss")]
       IN  fetch_call' =
             IF outcome = "posts"
             THEN [issued EXCEPT !.at = "returned",
                                 !.by = IF @ = "none" THEN "rss" ELSE @]
             ELSE [issued EXCEPT !.errors = Append(@, e),
                                 !.at = "raised",
                                 !.surfaced =
                                     rss_fallback_raises(fetch_call.last_error, e)]
    /\ SourceFrame

----------------------------------------------------------------------------
(* Bot command handlers (bot/handlers.py).  ChatIds are registered users.   *)
(* The handlers invalidate the process-wide cache of get_cache(), which is  *)
(* not the AppCache instance the Application reads, so `cache` is unchanged.*)

Digits == {"0", "1", "2", "3", "4", "5", "6", "7", "8", "9"}

\* the shape \([^\)]+\)\{[0-9]+,\} occurs in the pattern
HasCountedGroup(p) ==
    \E i, j, k \in DOMAIN p :
        /\ i + 1 < j /\ j + 2 < k /\ k + 1 \in DOMAIN p
        /\ p[i] = "(" /\ p[j] = ")" /\ p[j + 1] = "{"
        /\ \A m \in (i + 1)..(j - 1) : p[m] # ")"
        /\ \A m \in (j + 2)..(k - 1) : p[m] \in Digits
        /\ p[k] = "," /\ p[k + 1] = "}"

validate_regex(pattern) ==
    /\ Len(pattern) <= MAX_REGEX_LENGTH
    /\ ~Contains(pattern, <<"(", ".", "*", ")", "+">>)
    /\ ~Contains(pattern, <<"(", ".", "+", ")", "+">>)
    /\ ~Contains(pattern, <<"(", ".", "*", ")", "*">>)
    /\ ~Contains(pattern, <<"(", ".", "+", ")", "*">>)
    /\ ~HasCountedGroup(pattern)
    /\ RegexCompiles(pattern)

UserKeywords(chat_id) == {row \in db_subscriptions : row[1] = chat_id}
UserAuthors(chat_id)  == {row \in db_user_subs : row[1] = chat_id}

HandlerFrame ==
    UNCHANGED <<aux_vars, db_posts, db_notifications, cache, config, pc, pending_tasks,
                batch_start, task_status, total_sent, fetch_fail_count,
                fetch_fail_notified, cookie_fail_count, cookie_notify_round,
                last_job, last_alerts, posts, keywords, known_before, sent_count,
                failed_pairs, fail_run, outage_since_success,
                outage_since_reset, cred_since_pass, cred_since_reset>>

Spend == budget.mutations > 0 /\ budget' = [budget EXCEPT !.mutations = @ - 1]

subscribe(chat_id, keyword) ==
    /\ Spend
    /\ keyword # <<>>
    /\ Len(keyword) <= MAX_KEYWORD_LENGTH
    /\ is_regex_pattern(keyword) => validate_regex(keyword)
    /\ Cardinality(UserKeywords(chat_id)) < MAX_KEYWORDS_PER_USER
    /\ db_subscriptions' = db_subscriptions \cup {<<chat_id, Lower(keyword)>>}
    /\ UNCHANGED <<db_subscribe_all, db_user_subs, db_blocked>>
    /\ HandlerFrame

unsubscribe(chat_id, keyword) ==
    /\ Spend
    /\ keyword # <<>>
    /\ db_subscriptions' = db_subscriptions \ {<<chat_id, Lower(keyword)>>}
    /\ UNCHANGED <<db_subscribe_all, db_user_subs, db_blocked>>
    /\ HandlerFrame

subscribe_all(chat_id) ==
    /\ Spend
    /\ db_subscribe_all' = db_subscribe_all \cup {chat_id}
    /\ UNCHANGED <<db_subscriptions, db_user_subs, db_blocked>>
    /\ HandlerFrame

unsubscribe_all(chat_id) ==
    /\ Spend
    /\ db_subscribe_all' = db_subscribe_all \ {chat_id}
    /\ UNCHANGED <<db_subscriptions, db_user_subs, db_blocked>>
    /\ HandlerFrame

subscribe_user(chat_id, author) ==
    /\ Spend
    /\ author # <<>>
    /\ Cardinality(UserAuthors(chat_id)) < MAX_AUTHORS_PER_USER
    /\ db_user_subs' = db_user_subs \cup {<<chat_id, Lower(author)>>}
    /\ UNCHANGED <<db_subscriptions, db_subscribe_all, db_blocked>>
    /\ HandlerFrame

unsubscribe_user(chat_id, author) ==
    /\ Spend
    /\ author # <<>>
    /\ db_user_subs' = db_user_subs \ {<<chat_id, Lower(author)>>}
    /\ UNCHANGED <<db_subscriptions, db_subscribe_all, db_blocked>>
    /\ HandlerFrame

\* /start of a registered user: the blocked flag is cleared
start(chat_id) ==
    /\ Spend
    /\ db_blocked' = db_blocked \ {chat_id}
    /\ UNCHANGED <<db_subscriptions, db_subscribe_all, db_user_subs>>
    /\ HandlerFrame

\* handle_callback on the callback data "<prefix>:<arg>" of an inline button.
\* The data is what the client sends back; the branches that only redraw a
\* message (noop, del_kw, cancel_kw, del_user, cancel_user) change nothing.
handle_callback(chat_id, prefix, arg) ==
    /\ Spend
    /\ CASE prefix = "quick_kw" ->
              /\ Cardinality(UserKeywords(chat_id)) < MAX_KEYWORDS_PER_USER
              /\ db_subscriptions' = db_subscriptions \cup {<<chat_id, Lower(arg)>>}
              /\ UNCHANGED <<db_subscribe_all, db_user_subs, db_blocked>>
         [] prefix = "confirm_kw" ->
              /\ db_subscriptions' = db_subscriptions \ {<<chat_id, Lower(arg)>>}
              /\ UNCHANGED <<db_subscribe_all, db_user_subs, db_blocked>>
         [] prefix = "quick_user" ->
              /\ Cardinality(UserAuthors(chat_id)) < MAX_AUTHORS_PER_USER
              /\ db_user_subs' = db_user_subs \cup {<<chat_id, Lower(arg)>>}
              /\ UNCHANGED <<db_subscriptions, db_subscribe_all, db_blocked>>
         [] prefix = "confirm_user" ->
              /\ db_user_subs' = db_user_subs \ {<<chat_id, Lower(arg)>>}
              /\ UNCHANGED <<db_subscriptions, db_subscribe_all, db_blocked>>
    /\ HandlerFrame

----------------------------------------------------------------------------
(* Matcher calls: KeywordMatcher.match as the fetch cycle calls it, on a     *)
(* fetched title and a stored keyword                                        *)

\* no call yet; _regex_cache holds <<pattern, entry>> pairs
NewMatcher ==
    [_regex_cache |-> {}, title |-> <<>>, keyword |-> <<>>,
     search_raised |-> FALSE, raised |-> "none", result |-> "none"]

\* KeywordMatcher._get_compiled_regex: the cache it leaves (an exception that
\* is not re.error leaves it as it was)
_get_compiled_regex(_regex_cache, pattern) ==
    IF \E entry \in _regex_cache : entry[1] = pattern THEN _regex_cache
    ELSE CASE re_compile(pattern) = "compiled" ->
                _regex_cache \cup {<<pattern, "compiled">>}
           [] re_compile(pattern) = "re.error" ->
                _regex_cache \cup {<<pattern, "None">>}
           [] OTHER -> _regex_cache

KeywordMatcher_match(title, keyword, search_raises) ==
    /\ match_call # <<>>
    /\ \E row \in db_subscriptions : row[2] = keyword
    /\ LET r == match_outcome(title, keyword, search_raises)
       IN  match_call' =
             [_regex_cache |->
                  IF is_regex_pattern(keyword)
                  THEN _get_compiled_regex(match_call._regex_cache, keyword)
                  ELSE match_call._regex_cache,
              title |-> title, keyword |-> keyword,
              search_raised |-> search_raises /\ is_regex_pattern(keyword)
                                /\ RegexCompiles(keyword),
              raised |-> r.raised, result |-> r.result]
    /\ UNCHANGED <<core_vars, supervisor_vars, fetch_call, later_vars>>

----------------------------------------------------------------------------
(* Per-task send: TelegramBot._send_with_retry, one step per send_message   *)
(* call and one per retry delay                                              *)

\* what bot.send_message comes back with: the message went out, or one of the
\* telegram.error classes the method names, or an exception of another kind
Responses == {"sent", "Forbidden", "TimedOut", "NetworkError", "TelegramError",
              "Exception"}

\* no call yet
NewSender ==
    [chat_id |-> 0, attempt |-> 0, at |-> "none", result |-> "none",
     responses |-> <<>>, calls |-> 0]

\* fault variant: every error that does not flag the user is retried
retried_any_error(response) == response \notin {"sent", "Forbidden", "Exception"}

\* except (TimedOut, NetworkError)
retried(response) == response \in {"TimedOut", "NetworkError"}

\* where one attempt leaves the call: the try block of the for loop, then the
\* loop's own end
after_attempt(attempt, response) ==
    CASE response = "sent" -> [at |-> "returned", result |-> "True"]
      [] response = "Forbidden" -> [at |-> "returned", result |-> "False"]
      [] response = "Exception" -> [at |-> "raised", result |-> "none"]
      [] retried(response) ->
            IF attempt < MAX_RETRIES - 1
            THEN [at |-> "sleep", result |-> "none"]
            ELSE [at |-> "returned", result |-> "False"]
      [] OTHER -> [at |-> "returned", result |-> "False"]

SendFrame ==
    UNCHANGED <<db_posts, db_notifications, db_subscriptions, db_subscribe_all,
                db_user_subs, cache, config, pc, pending_tasks, batch_start,
                task_status, total_sent, fetch_fail_count, fetch_fail_notified,
                cookie_fail_count, cookie_notify_round, last_job, last_alerts,
                posts, keywords, known_before, sent_count, failed_pairs,
                fail_run, outage_since_success, outage_since_reset,
                cred_since_pass, cred_since_reset, budget, supervisor_vars,
                fetch_call, match_call, app_caches, in_flight, entry_vars>>

\* send_notification[_all] enters _send_with_retry for one task
_send_with_retry(chat_id) ==
    /\ send_call # <<>>
    /\ send_call.at \in {"none", "returned", "raised"}
    /\ send_call.calls < MaxSendCalls
    /\ send_call' = [NewSender EXCEPT !.chat_id = chat_id, !.at = "send",
                                      !.calls = send_call.calls + 1]
    /\ UNCHANGED db_blocked
    /\ SendFrame

\* one pass of the for loop: bot.send_message and the except clause it meets
send_message(response) ==
    /\ send_call # <<>>
    /\ send_call.at = "send"
    /\ LET r == after_attempt(send_call.attempt, response)
       IN  send_call' = [send_call EXCEPT
                           !.at = r.at, !.result = r.result,
                           !.responses = Append(@, response)]
    /\ db_blocked' = IF response = "Forbidden"
                     THEN db_blocked \cup {send_call.chat_id} ELSE db_blocked
    /\ SendFrame

\* asyncio.sleep(RETRY_DELAY) returns and the loop takes its next attempt
retry_delay(chat_id) ==
    /\ send_call # <<>>
    /\ send_call.at = "sleep"
    /\ send_call.chat_id = chat_id
    /\ send_call' = [send_call EXCEPT !.at = "send", !.attempt = @ + 1]
    /\ UNCHANGED db_blocked
    /\ SendFrame

----------------------------------------------------------------------------
(* Cache objects of two tenants (cache.py): AppCache over a CacheBackend.   *)
(* A backend is its _cache dictionary, a function from the keys in use to   *)
(* <<>> (absent) or <<value>>; a value carries the tenant that wrote it.    *)

BackendIds == {1, 2}

\* the names AppCache puts behind the forum id
PREFIX_KEYWORDS == <<"keywords">>
PREFIX_SUBSCRIBE_ALL == <<"subscribe_all">>
CacheNames == {PREFIX_KEYWORDS, PREFIX_SUBSCRIBE_ALL}

forum_id(t) == <<t>>

\* AppCache._key: f"{self.forum_id}:{key}"
_key(t, key) == forum_id(t) \o <<":">> \o key

BackendKeys == {_key(t, key) : t \in Tenants, key \in CacheNames}

\* MemoryCache.__init__
MemoryCache == [k \in BackendKeys |-> <<>>]

CachedValues == [by : Tenants, val : {1, 2}]

\* the AppCache objects, each with the backend it was given, and the last
\* operation one of them served
NewAppCaches(_backend) ==
    [_backend |-> _backend,
     _cache |-> [b \in BackendIds |-> MemoryCache],
     last |-> [by |-> "none", op |-> "none", result |-> <<>>]]

CacheFrame ==
    UNCHANGED <<core_vars, supervisor_vars, fetch_call, match_call, send_call,
                in_flight, entry_vars>>

\* AppCache.set_keywords / set_subscribe_all_users
AppCache_set(t, key, val) ==
    /\ app_caches # <<>>
    /\ app_caches' = [app_caches EXCEPT
          !._cache[app_caches._backend[t]][_key(t, key)] = <<[by |-> t, val |-> val]>>,
          !.last = [by |-> t, op |-> "set", result |-> <<>>]]
    /\ CacheFrame

\* AppCache.get_keywords / get_subscribe_all_users
AppCache_get(t, key) ==
    /\ app_caches # <<>>
    /\ app_caches' = [app_caches EXCEPT
          !.last = [by |-> t, op |-> "get",
                    result |-> app_caches._cache[app_caches._backend[t]][_key(t, key)]]]
    /\ CacheFrame

\* AppCache.invalidate_keywords / invalidate_subscribe_all
AppCache_invalidate(t, key) ==
    /\ app_caches # <<>>
    /\ app_caches' = [app_caches EXCEPT
          !._cache[app_caches._backend[t]][_key(t, key)] = <<>>,
          !.last = [by |-> t, op |-> "invalidate", result |-> <<>>]]
    /\ CacheFrame

\* AppCache.clear_all: MemoryCache.clear on the backend
clear_all(t) ==
    /\ app_caches # <<>>
    /\ app_caches' = [app_caches EXCEPT
          !._cache[app_caches._backend[t]] = MemoryCache,
          !.last = [by |-> t, op |-> "clear_all", result |-> <<>>]]
    /\ CacheFrame

----------------------------------------------------------------------------
(* Fetch cycles in flight together.  start_async awaits its initial fetch   *)
(* after the scheduler has been started, so the initial fetch and an        *)
(* instance of the scheduler's job can both be inside fetch_and_notify.     *)
(* Each execution goes through the steps of the fetch job above: the await  *)
(* of source.fetch, the planning (one stretch without an await), the sends, *)
(* the success branch.                                                      *)

Starters == {"initial", "job"}

NewCycle == [at |-> "idle", run |-> 0, pending_tasks |-> <<>>, done |-> {}]

\* no cycle yet; per post id the executions <<starter, run>> that fetched it,
\* that planned deliveries for it and whose add_post returned True for it
NewCycles ==
    [of |-> [c \in Starters |-> NewCycle],
     seen_by |-> [id \in PostIds |-> {}],
     planned_by |-> [id \in PostIds |-> {}],
     inserted_by |-> [id \in PostIds |-> {}]]

CycleFrame ==
    UNCHANGED <<db_subscriptions, db_subscribe_all, db_user_subs, config, pc,
                pending_tasks, batch_start, task_status, total_sent,
                cookie_fail_count, cookie_notify_round, last_job, last_alerts,
                posts, keywords, known_before, sent_count, failed_pairs,
                fail_run, outage_since_success, outage_since_reset,
                cred_since_pass, cred_since_reset, supervisor_vars, fetch_call,
                match_call, send_call, app_caches, entry_vars>>

\* fetch_and_notify is entered: by start_async once, by the scheduler whenever
\* no instance of its job is running
cycle_starts(c) ==
    /\ in_flight # <<>>
    /\ in_flight.of[c].at = "idle"
    /\ c = "initial" => in_flight.of[c].run = 0
    /\ budget.cycles > 0
    /\ budget' = [budget EXCEPT !.cycles = @ - 1]
    /\ in_flight' = [in_flight EXCEPT !.of[c].at = "fetching", !.of[c].run = @ + 1]
    /\ UNCHANGED <<db_posts, db_notifications, db_blocked, cache,
                   fetch_fail_count, fetch_fail_notified>>
    /\ CycleFrame

\* Database.add_post on a posts table: the INSERT is rejected (IntegrityError,
\* returns False) when the id is already there
add_post(posts_tbl, post_id) ==
    [returned |-> post_id \notin posts_tbl, posts_tbl |-> posts_tbl \cup {post_id}]

\* source.fetch returned `fetched`: the cached reads and the loop over the
\* posts, which ignores what add_post returns
cycle_plans(c, fetched, kwOrder, authorOrder, expired) ==
    /\ in_flight # <<>>
    /\ in_flight.of[c].at = "fetching"
    /\ LET pl   == Plan(fetched, kwOrder, authorOrder, expired)
           me   == <<c, in_flight.of[c].run>>
           mine == {pl.tasks[i].post_id : i \in DOMAIN pl.tasks}
       IN  /\ db_posts' = pl.posts_tbl
           /\ cache' = pl.cache
           /\ in_flight' = [in_flight EXCEPT
                 !.of[c].at = "dispatch",
                 !.of[c].pending_tasks = pl.tasks,
                 !.of[c].done = {},
                 !.seen_by = [id \in PostIds |->
                     IF \E i \in DOMAIN fetched : fetched[i].id = id
                     THEN @[id] \cup {me} ELSE @[id]],
                 !.planned_by = [id \in PostIds |->
                     IF id \in mine THEN @[id] \cup {me} ELSE @[id]],
                 !.inserted_by = [id \in PostIds |->
                     IF id \in mine /\ add_post(db_posts, id).returned
                     THEN @[id] \cup {me} ELSE @[id]]]
    /\ UNCHANGED <<db_notifications, db_blocked, fetch_fail_count,
                   fetch_fail_notified, budget>>
    /\ CycleFrame

\* one send_one of the execution's gather resumes with its outcome
cycle_sends(c, i, outcome) ==
    /\ in_flight # <<>>
    /\ in_flight.of[c].at = "dispatch"
    /\ i \in DOMAIN in_flight.of[c].pending_tasks
    /\ i \notin in_flight.of[c].done
    /\ LET t == in_flight.of[c].pending_tasks[i]
       IN  /\ db_notifications' =
                 IF success(outcome) THEN db_notifications \cup {NotificationRow(t)}
                 ELSE db_notifications
           /\ db_blocked' =
                 IF outcome = "forbidden" THEN db_blocked \cup {t.chat_id} ELSE db_blocked
    /\ in_flight' = [in_flight EXCEPT !.of[c].done = @ \cup {i}]
    /\ UNCHANGED <<db_posts, cache, fetch_fail_count, fetch_fail_notified, budget>>
    /\ CycleFrame

\* the success branch after the last batch
cycle_ends(c) ==
    /\ in_flight # <<>>
    /\ in_flight.of[c].at = "dispatch"
    /\ in_flight.of[c].done = DOMAIN in_flight.of[c].pending_tasks
    /\ in_flight' = [in_flight EXCEPT !.of[c].at = "idle",
                                !.of[c].pending_tasks = <<>>, !.of[c].done = {}]
    /\ fetch_fail_count' = 0
    /\ fetch_fail_notified' = FALSE
    /\ UNCHANGED <<db_posts, db_notifications, db_blocked, cache, budget>>
    /\ CycleFrame

----------------------------------------------------------------------------
(* Proxied session: calls of _fetch_via_flaresolverr with the session       *)
(* requests of the proxy written out.  A session id is a number, 0 is None; *)
(* every id the source makes up is one it never used before.                *)

\* what one request.get comes back with: the posts, a reply whose status is
\* not ok and whose message names the session, or any other failure
SessionOutcomes == {"posts", "session_error", "error"}

\* a DiscourseSource between two calls, holding the session it was left with
NewSessions(_flaresolverr_session_id) ==
    [_flaresolverr_session_id |-> _flaresolverr_session_id,
     made |-> _flaresolverr_session_id, destroyed |-> {},
     session_id |-> 0, payload_session |-> 0, attempt |-> 0, at |-> "idle",
     issued |-> <<>>, calls |-> 0]

\* _get_or_create_session: the session kept if there is one and it is young
\* enough, else a sessions.create request that succeeds or not
_get_or_create_session(src, expired, create_ok) ==
    IF src._flaresolverr_session_id # 0 /\ ~expired
    THEN [src |-> src, session_id |-> src._flaresolverr_session_id]
    ELSE IF create_ok
    THEN [src |-> [src EXCEPT !._flaresolverr_session_id = src.made + 1,
                              !.made = src.made + 1],
          session_id |-> src.made + 1]
    ELSE [src |-> src, session_id |-> 0]

\* _destroy_session: the sessions.destroy request reaches the proxy or raises,
\* and the id is forgotten either way
_destroy_session(src, delivered) ==
    IF src._flaresolverr_session_id = 0 THEN src
    ELSE [src EXCEPT
            !.destroyed = IF delivered
                          THEN @ \cup {src._flaresolverr_session_id} ELSE @,
            !._flaresolverr_session_id = 0]

SessionFrame ==
    UNCHANGED <<core_vars, supervisor_vars, fetch_call, match_call, send_call,
                app_caches, in_flight, run_call, scheduling, identity>>

\* _fetch_via_flaresolverr up to its retry loop: the session and the payload
session_payload(expired, create_ok) ==
    /\ session_call # <<>>
    /\ session_call.at \in {"idle", "returned", "rss"}
    /\ session_call.calls < MaxSessionCalls
    /\ LET r == _get_or_create_session(session_call, expired, create_ok)
       IN  session_call' = [r.src EXCEPT
                              !.session_id = r.session_id,
                              !.payload_session = r.session_id,
                              !.attempt = 1, !.at = "request",
                              !.issued = <<>>, !.calls = @ + 1]
    /\ SessionFrame

\* the except clause of the retry loop: the session is replaced after the
\* first attempt only, and the payload is changed only by a session made
replaced(src, delivered, create_ok) ==
    IF src.attempt = 1 /\ src.session_id # 0
    THEN LET r == _get_or_create_session(_destroy_session(src, delivered),
                                         FALSE, create_ok)
         IN  [r.src EXCEPT
                !.session_id = r.session_id,
                !.payload_session = IF r.session_id # 0 THEN r.session_id ELSE @]
    ELSE src

\* one pass of the retry loop
session_attempt(outcome, delivered, create_ok) ==
    /\ session_call # <<>>
    /\ session_call.at = "request"
    /\ LET request == [attempt |-> session_call.attempt,
                       session |-> session_call.payload_session,
                       destroyed |-> session_call.payload_session
                                        \in session_call.destroyed]
           sent == [session_call EXCEPT !.issued = Append(@, request)]
           tried == IF outcome = "session_error"
                    THEN _destroy_session(sent, delivered) ELSE sent
           caught == replaced(tried, delivered, create_ok)
       IN  session_call' =
             IF outcome = "posts" THEN [sent EXCEPT !.at = "returned"]
             ELSE IF session_call.attempt < max_retries
             THEN [caught EXCEPT !.attempt = @ + 1]
             ELSE [caught EXCEPT !.at = "rss"]
    /\ SessionFrame

----------------------------------------------------------------------------
(* Entry point: MultiForumApplication.run over the tenants that are         *)
(* enabled.  More than one goes to _run_multi_async and the supervised      *)
(* loops above; exactly one goes to the blocking Application.run, where     *)
(* run_polling of the bot library owns the event loop: it initialises the   *)
(* bot, runs post_init, starts the updater and then serves the loop until a *)
(* stop signal arrives.                                                      *)

\* a MultiForumApplication after __init__, with the tenants its configuration
\* enables
NewRun(enabled) == [enabled |-> enabled, at |-> "created", stopping |-> FALSE]

RunFrame ==
    UNCHANGED <<core_vars, scenario, fetch_call, match_call, send_call,
                app_caches, in_flight, session_call, scheduling, identity>>

\* MultiForumApplication.run: _create_apps and the choice of the mode; the multi
\* mode is taken up to the creation of the tenants' tasks
run ==
    /\ run_call # <<>>
    /\ run_call.at = "created"
    /\ apps' = [t \in run_call.enabled |-> NewApp]
    /\ IF run_call.enabled = {}
       THEN /\ run_call' = [run_call EXCEPT !.at = "returned"]
            /\ UNCHANGED <<_tasks, _running, main_task>>
       ELSE IF Cardinality(run_call.enabled) = 1
       THEN /\ run_call' = [run_call EXCEPT !.at = "single"]
            /\ UNCHANGED <<_tasks, _running, main_task>>
       ELSE /\ run_call' = [run_call EXCEPT !.at = "multi"]
            /\ _running' = TRUE
            /\ _tasks' = [t \in run_call.enabled |-> NewTask]
            /\ main_task' = "wait"
    /\ RunFrame

\* Application.run up to post_init: the scheduler's jobs are added and
\* run_polling initialises the bot, or raises out of run
Application_run(t) ==
    /\ run_call # <<>>
    /\ run_call.at = "single"
    /\ t \in run_call.enabled
    /\ apps' = [apps EXCEPT ![t].application = TRUE]
    /\ run_call' = [run_call EXCEPT
                      !.at = IF scenario[t] = "start_raises"
                             THEN "raised" ELSE "post_init"]
    /\ UNCHANGED <<_tasks, _running, main_task>>
    /\ RunFrame

\* post_init up to its await: the scheduler is started, then the initial
\* fetch is awaited
post_init(t) ==
    /\ run_call # <<>>
    /\ run_call.at = "post_init"
    /\ t \in run_call.enabled
    /\ apps' = [apps EXCEPT ![t].scheduler = TRUE]
    /\ run_call' = [run_call EXCEPT !.at = "initial_fetch"]
    /\ UNCHANGED <<_tasks, _running, main_task>>
    /\ RunFrame

\* the initial fetch returns, then run_polling starts the updater and serves
\* the loop
run_polling(t) ==
    /\ run_call # <<>>
    /\ run_call.at = "initial_fetch"
    /\ t \in run_call.enabled
    /\ apps[t]._fetch_fail_count < MaxTenantFails
    /\ LET r == fetch_and_notify(apps[t], fetch_raises(t))
       IN  /\ apps' = [apps EXCEPT ![t] = [r.app EXCEPT !.job = apps[t].job,
                                                        !.updater = TRUE]]
           /\ run_call' = [run_call EXCEPT
                             !.at = IF r.escaped THEN "raised" ELSE "polling"]
    /\ UNCHANGED <<_tasks, _running, main_task>>
    /\ RunFrame

\* the loop of the blocking mode is being served: the scheduler's triggers
\* fire and the updater polls
Serving == run_call # <<>> /\ run_call.at \in {"initial_fetch", "polling"}

\* a stop signal ends run_polling: the updater and the bot are stopped and
\* Application.run returns
stop_signal(t) ==
    /\ run_call # <<>>
    /\ run_call.at = "polling"
    /\ t \in run_call.enabled
    /\ apps' = [apps EXCEPT ![t].updater = FALSE, ![t].job = "idle"]
    /\ run_call' = [run_call EXCEPT !.at = "returned", !.stopping = TRUE]
    /\ UNCHANGED <<_tasks, _running, main_task>>
    /\ RunFrame

----------------------------------------------------------------------------
(* Scheduling: one tenant's scheduler with its two interval jobs and the    *)
(* forum_config they are made from, under start, hot reload, stop and the   *)
(* reset before a restart.  A job is its interval and a number that tells   *)
(* one add_job from another.                                                 *)

FetchIntervals == {30, 60}
CheckIntervals == {0, 300, 600}

\* ForumConfig: the fields create_source and the scheduling read
ForumConfigs ==
    [source_type : {"rss", "discourse"}, discourse_cookie : BOOLEAN,
     fetch_interval : FetchIntervals, cookie_check_interval : CheckIntervals]

NoJob == [seconds |-> 0, no |-> 0]

\* an Application after __init__: a scheduler without jobs, not running
NewScheduling(forum_config) ==
    [forum_config |-> forum_config, running |-> FALSE, at |-> "created",
     data_fetch |-> NoJob, cookie_check |-> NoJob, added |-> 0,
     reloads |-> 0, restarts |-> 0]

\* scheduler.add_job(..., "interval", seconds=seconds, id=...)
add_job(sch, id, seconds) ==
    IF id = "data_fetch"
    THEN [sch EXCEPT !.data_fetch = [seconds |-> seconds, no |-> sch.added + 1],
                     !.added = @ + 1]
    ELSE [sch EXCEPT !.cookie_check = [seconds |-> seconds, no |-> sch.added + 1],
                     !.added = @ + 1]

\* scheduler.remove_job(id)
remove_job(sch, id) ==
    IF id = "data_fetch" THEN [sch EXCEPT !.data_fetch = NoJob]
    ELSE [sch EXCEPT !.cookie_check = NoJob]

\* start_async: the condition under which the health job is added
cookie_check_wanted(forum_config) ==
    /\ forum_config.source_type = "discourse"
    /\ forum_config.cookie_check_interval > 0

SchedulingFrame ==
    UNCHANGED <<core_vars, supervisor_vars, fetch_call, match_call, send_call,
                app_caches, in_flight, run_call, session_call, identity>>

\* start_async up to the start of the bot: the two add_job calls
add_jobs ==
    /\ scheduling # <<>>
    /\ scheduling.at = "created"
    /\ LET cfg == scheduling.forum_config
           fetching == add_job(scheduling, "data_fetch", cfg.fetch_interval)
           checking == IF cookie_check_wanted(cfg)
                       THEN add_job(fetching, "cookie_check",
                                    cfg.cookie_check_interval)
                       ELSE fetching
       IN  scheduling' = [checking EXCEPT !.at = "added"]
    /\ SchedulingFrame

\* start_async: self.scheduler.start()
scheduler_start ==
    /\ scheduling # <<>>
    /\ scheduling.at = "added"
    /\ scheduling' = [scheduling EXCEPT !.running = TRUE, !.at = "running"]
    /\ SchedulingFrame

\* the jobs reload_config leaves when it gets as far as the scheduler
rescheduled(sch, old, new) ==
    LET fetching ==
            IF old.fetch_interval # new.fetch_interval
            THEN add_job(remove_job(sch, "data_fetch"), "data_fetch",
                         new.fetch_interval)
            ELSE sch
    IN  IF old.cookie_check_interval = new.cookie_check_interval THEN fetching
        ELSE IF new.cookie_check_interval > 0
        THEN add_job(remove_job(fetching, "cookie_check"), "cookie_check",
                     new.cookie_check_interval)
        ELSE remove_job(fetching, "cookie_check")

\* Application.reload_config as the scheduler sees it: forum_config is
\* replaced, then create_source returns or raises, and only then the jobs of
\* a running scheduler are looked at
reschedule(new_forum_config) ==
    /\ scheduling # <<>>
    /\ scheduling.at # "dead"
    /\ scheduling.reloads < MaxJobReloads
    /\ LET old == scheduling.forum_config
           replaced_config == [scheduling EXCEPT !.forum_config = new_forum_config,
                                                 !.reloads = @ + 1]
       IN  scheduling' =
             IF create_source_ok(new_forum_config) /\ scheduling.running
             THEN rescheduled(replaced_config, old, new_forum_config)
             ELSE replaced_config
    /\ SchedulingFrame

\* stop_async: self.scheduler.shutdown()
scheduler_shutdown ==
    /\ scheduling # <<>>
    /\ scheduling.at \in {"added", "running"}
    /\ scheduling.restarts < MaxJobRestarts
    /\ scheduling' = [scheduling EXCEPT !.running = FALSE, !.at = "stopped"]
    /\ SchedulingFrame

\* _reset_state: a new AsyncIOScheduler, then create_source(self.forum_config),
\* which ends the supervised loop when it raises
new_scheduler ==
    /\ scheduling # <<>>
    /\ scheduling.at = "stopped"
    /\ scheduling' =
         [scheduling EXCEPT
            !.data_fetch = NoJob, !.cookie_check = NoJob,
            !.restarts = @ + 1,
            !.at = IF create_source_ok(scheduling.forum_config)
                   THEN "created" ELSE "dead"]
    /\ SchedulingFrame

----------------------------------------------------------------------------
(* Post identity: the id each source gives a topic of the forum.  The API   *)
(* source reads the topic's number from the JSON; the feed source reads the *)
(* entry's guid, which is whatever the forum's feed carries, or hashes the  *)
(* entry's link.  Ids are strings, written as sequences of characters.      *)

\* the topics the forum lists, by their number
Topics == {7, 42}

DigitChars == <<"0", "1", "2", "3", "4", "5", "6", "7", "8", "9">>

\* str(n) of a natural number
RECURSIVE str(_)
str(n) == IF n < 10 THEN <<DigitChars[n + 1]>>
          ELSE str(n \div 10) \o <<DigitChars[(n % 10) + 1]>>

\* the link both sources give the topic: {base_url}/t/{slug}/{id}
Link(topic) == <<"/", "t", "/">> \o str(topic)

\* what the feed carries as the guid of an entry: nothing, the forum
\* software's own "<host>-topic-<number>", the entry's link, or the bare number
GuidForms == {"none", "topic", "link", "number"}

Guid(form, topic) ==
    CASE form = "none" -> <<>>
      [] form = "topic" -> <<"-", "t", "o", "p", "i", "c", "-">> \o str(topic)
      [] form = "link" -> Link(topic)
      [] form = "number" -> str(topic)

\* feedparser's entry for the topic
Entry(form, topic) == [id |-> Guid(form, topic), link |-> Link(topic)]

\* hashlib.md5(link).hexdigest(): 32 hex digits that stand for the link
md5(link) == <<"md5">> \o link

\* RSSSource._generate_id
_generate_id(entry) == IF entry.id # <<>> THEN entry.id ELSE md5(entry.link)

\* DiscourseSource._parse_response: post_id = str(topic.get("id", ""))
_parse_response(topic) == str(topic)

\* the Post.id a strategy of the chain gives the topic
PostIdBy(strategy, guid_form, topic) ==
    IF strategy = "api" THEN _parse_response(topic)
    ELSE _generate_id(Entry(guid_form, topic))

\* a tenant with an empty posts table, reading a forum whose feed writes its
\* guids in guid_form
NewIdentity(guid_form) ==
    [guid_form |-> guid_form, posts_tbl |-> {}, cycles |-> 0,
     ids |-> [topic \in Topics |-> {}],
     new |-> [topic \in Topics |-> 0],
     by |-> [topic \in Topics |-> {}]]

IdentityFrame ==
    UNCHANGED <<core_vars, supervisor_vars, fetch_call, match_call, send_call,
                app_caches, in_flight, run_call, session_call, scheduling>>

\* one fetch cycle of an authenticated source: the chain returns the listed
\* topics through the API or, degraded, through the plain feed; every post
\* whose id is not in the posts table is new and is added
identity_cycle(strategy, listed) ==
    /\ identity # <<>>
    /\ identity.cycles < MaxIdentityCycles
    /\ LET id(topic) == PostIdBy(strategy, identity.guid_form, topic)
           is_new(topic) == topic \in listed /\ id(topic) \notin identity.posts_tbl
       IN  identity' =
             [identity EXCEPT
                !.cycles = @ + 1,
                !.posts_tbl = @ \cup {id(topic) : topic \in listed},
                !.ids = [topic \in Topics |->
                           IF topic \in listed THEN @[topic] \cup {id(topic)}
                           ELSE @[topic]],
                !.by = [topic \in Topics |->
                           IF topic \in listed THEN @[topic] \cup {strategy}
                           ELSE @[topic]],
                !.new = [topic \in Topics |->
                           IF is_new(topic) THEN @[topic] + 1 ELSE @[topic]]]
    /\ IdentityFrame

----------------------------------------------------------------------------
(* Specifications *)

\* keys whose TTL can have run out when a cycle reads: none without a cache
CacheEntry(c, key) ==
    CASE key[1] = "keywords" -> c.keywords
      [] key[1] = "subscribe_all" -> c.subscribe_all
      [] key[1] = "authors" -> c.authors
      [] key[1] = "subscribers" -> c.subscribers[key[2]]
      [] key[1] = "author_subscribers" -> c.author_subscribers[key[2]]

ExpiredSets == SUBSET {key \in CacheKeys : CacheEntry(cache, key) # <<>>}

Budget(cycles, mutations, reloads, restarts, health) ==
    [cycles |-> cycles, mutations |-> mutations, reloads |-> reloads,
     restarts |-> restarts, health |-> health]

ValidConfigs == {cfg \in ConfigSpace : create_source_ok(cfg)}

\* storage contents the explorations start from
Storage(subscriptions, all, user_subs) ==
    /\ db_subscriptions = subscriptions
    /\ db_subscribe_all = all
    /\ db_user_subs = user_subs

KwGpt == <<"g", "p", "t">>
KwDot == <<"g", ".", "t">>
AuNeo == <<"n", "e", "o">>

DiscourseConfigs == {cfg \in ValidConfigs : cfg.source_type = "discourse"}

\* Pipeline: fetch cycles that succeed, against subscriptions the handlers
\* change while the cycles run
InitStorage ==
    \/ Storage({<<1, KwGpt>>, <<2, KwGpt>>}, {}, {<<2, AuNeo>>})
    \/ Storage({<<1, KwGpt>>, <<1, KwDot>>}, {1}, {<<1, AuNeo>>})

Init ==
    /\ InitRuntime
    /\ config \in DiscourseConfigs
    /\ InitStorage
    /\ budget = Budget(MaxCycles, MaxMutations, 0, 0, 0)

Next ==
    \/ StartCycle
    \/ \E fetched \in SeqsUpTo(PostUniverse, 2), kwOrder \in Orders(DbKeywords),
          authorOrder \in Orders(DbAuthors), expired \in ExpiredSets :
             FetchOk(fetched, kwOrder, authorOrder, expired)
    \/ StartBatch
    \/ \E i \in 1..Len(pending_tasks), outcome \in SendOutcomes : send_one(i, outcome)
    \/ EndBatch
    \/ CycleSuccess
    \/ \E chat_id \in ChatIds, keyword \in KeywordInputs : subscribe(chat_id, keyword)
    \/ \E chat_id \in ChatIds, keyword \in KeywordInputs : unsubscribe(chat_id, keyword)
    \/ \E chat_id \in ChatIds : subscribe_all(chat_id)
    \/ \E chat_id \in ChatIds : unsubscribe_all(chat_id)
    \/ \E chat_id \in ChatIds, author \in AuthorInputs : subscribe_user(chat_id, author)
    \/ \E chat_id \in ChatIds, author \in AuthorInputs : unsubscribe_user(chat_id, author)
    \/ \E chat_id \in ChatIds : start(chat_id)

Spec == Init /\ [][Next]_vars

\* Blocked subscribers: fetch cycles whose sends may be refused, against
\* subscriptions that do not change
InitBlocked ==
    /\ InitRuntime
    /\ config \in DiscourseConfigs
    /\ \/ Storage({<<1, KwDot>>, <<2, KwGpt>>}, {}, {<<2, AuNeo>>})
       \/ Storage({<<1, KwGpt>>}, {2}, {})
    /\ budget = Budget(MaxCycles, 0, 0, 0, 0)

NextBlocked ==
    \/ StartCycle
    \/ \E fetched \in SeqsUpTo(PostUniverse, 2), kwOrder \in Orders(DbKeywords),
          authorOrder \in Orders(DbAuthors), expired \in ExpiredSets :
             FetchOk(fetched, kwOrder, authorOrder, expired)
    \/ StartBatch
    \/ \E i \in 1..Len(pending_tasks), outcome \in SendOutcomes : send_one(i, outcome)
    \/ EndBatch
    \/ CycleSuccess

SpecBlocked == InitBlocked /\ [][NextBlocked]_vars

\* Planner: one cycle that plans a fetched list against every combination of
\* subscriptions, with nothing cached and nothing persisted
InitPlan ==
    /\ InitRuntime
    /\ config \in DiscourseConfigs
    /\ db_subscriptions \in SUBSET (ChatIds \X StoredKeywords)
    /\ db_subscribe_all \in SUBSET ChatIds
    /\ db_user_subs \in SUBSET (ChatIds \X StoredAuthors)
    /\ budget = Budget(1, 0, 0, 0, 0)

NextPlan ==
    \/ StartCycle
    \/ \E fetched \in SeqsUpTo(PostUniverse, 2), kwOrder \in Orders(DbKeywords),
          authorOrder \in Orders(DbAuthors), expired \in ExpiredSets :
             FetchOk(fetched, kwOrder, authorOrder, expired)

SpecPlan == InitPlan /\ [][NextPlan]_vars

\* Fetch alerts: failing and succeeding cycles, hot reloads and restarts
InitAlert ==
    /\ InitRuntime
    /\ config = [source_type |-> "discourse", discourse_cookie |-> TRUE,
                 cache_enabled |-> TRUE]
    /\ Storage({<<1, KwGpt>>}, {}, {})
    /\ budget = Budget(MaxAlertCycles, 0, MaxReloads, MaxRestarts, 0)

NextAlert ==
    \/ StartCycle
    \/ \E fetched \in SeqsUpTo({PostA}, 1), kwOrder \in Orders(DbKeywords),
          authorOrder \in Orders(DbAuthors), expired \in ExpiredSets :
             FetchOk(fetched, kwOrder, authorOrder, expired)
    \/ FetchFail
    \/ StartBatch
    \/ \E i \in 1..Len(pending_tasks), outcome \in SendOutcomes : send_one(i, outcome)
    \/ EndBatch
    \/ CycleSuccess
    \/ \E new_forum_config \in ConfigSpace : reload_config(new_forum_config)
    \/ _reset_state

SpecAlert == InitAlert /\ [][NextAlert]_vars

\* Raising cycles: the source fetch fails, or it succeeds and a later
\* statement of the cycle raises
MaxRaiseCycles == 7

InitRaise ==
    /\ InitRuntime
    /\ config = [source_type |-> "discourse", discourse_cookie |-> TRUE,
                 cache_enabled |-> TRUE]
    /\ Storage({<<1, KwGpt>>}, {}, {})
    /\ budget = Budget(MaxRaiseCycles, 0, 0, 0, 0)

NextRaise ==
    \/ StartCycle
    \/ \E fetched \in SeqsUpTo({PostA}, 1), kwOrder \in Orders(DbKeywords),
          authorOrder \in Orders(DbAuthors), expired \in ExpiredSets :
             FetchOk(fetched, kwOrder, authorOrder, expired)
    \/ FetchFail
    \/ \E fetched \in SeqsUpTo({PostA}, 1), planned \in 0..1,
          kwOrder \in Orders(DbKeywords), authorOrder \in Orders(DbAuthors),
          expired \in ExpiredSets :
             plan_raised(fetched, planned, kwOrder, authorOrder, expired)
    \/ StartBatch
    \/ \E i \in 1..Len(pending_tasks), outcome \in SendOutcomes : send_one(i, outcome)
    \/ EndBatch
    \/ dispatch_raised
    \/ CycleSuccess

SpecRaise == InitRaise /\ [][NextRaise]_vars

\* Credential health: health runs, hot reloads and restarts
InitHealth ==
    /\ InitRuntime
    /\ config = [source_type |-> "discourse", discourse_cookie |-> TRUE,
                 cache_enabled |-> TRUE]
    /\ Storage({}, {}, {})
    /\ budget = Budget(0, 0, MaxReloads, MaxRestarts, MaxHealthRuns)

NextHealth ==
    \/ \E resps \in [1..3 -> ProbeResponses] : _check_cookie_task(resps)
    \/ \E new_forum_config \in {cfg \in ConfigSpace : cfg.cache_enabled} :
          reload_config(new_forum_config)
    \/ _reset_state

SpecHealth == InitHealth /\ [][NextHealth]_vars

\* Supervisor: _run_multi_async has set _running and created one task per
\* tenant; the tenants' own pipelines are left out
InitSupervisor ==
    /\ InitCore
    /\ NoCalls
    /\ config = [source_type |-> "rss", discourse_cookie |-> FALSE,
                 cache_enabled |-> TRUE]
    /\ Storage({}, {}, {})
    /\ budget = Budget(0, 0, 0, 0, 0)
    /\ scenario \in [Tenants -> Behaviours]
    /\ apps = [t \in Tenants |-> NewApp]
    /\ _tasks = [t \in Tenants |-> NewTask]
    /\ _running = TRUE
    /\ main_task = "wait"

TenantStep(t) ==
    \/ start_async(t)
    \/ initial_fetch(t)
    \/ fetch_job_fires(t)
    \/ fetch_job_returns(t)
    \/ updater_stops(t)
    \/ poll(t)
    \/ stop_async(t)
    \/ sleep_restart_delay(t)
    \/ reset_for_restart(t)
    \/ task_cancelled(t)

NextSupervisor ==
    \/ \E t \in Tenants : TenantStep(t)
    \/ \E cancelled \in BOOLEAN : shutdown(cancelled)
    \/ gather_returns

SpecSupervisor == InitSupervisor /\ [][NextSupervisor]_vars

\* the event loop runs every task that is ready and every trigger that is due
\* (asyncio and APScheduler's interval triggers); nothing obliges a shutdown or
\* a stop of an updater to happen
FairTenant(t) ==
    /\ WF_vars(start_async(t))
    /\ WF_vars(initial_fetch(t))
    /\ WF_vars(fetch_job_fires(t))
    /\ WF_vars(fetch_job_returns(t))
    /\ WF_vars(poll(t))
    /\ WF_vars(stop_async(t))
    /\ WF_vars(sleep_restart_delay(t))
    /\ WF_vars(reset_for_restart(t))
    /\ WF_vars(task_cancelled(t))

SpecSupervisorFair ==
    /\ SpecSupervisor
    /\ \A t \in Tenants : FairTenant(t)
    /\ WF_vars(gather_returns)

\* Authenticated source: one fetch call in each constructor configuration
InitFetch ==
    /\ InitCore
    /\ NoSupervisor
    /\ match_call = <<>>
    /\ NoLater
    /\ config = [source_type |-> "discourse", discourse_cookie |-> TRUE,
                 cache_enabled |-> TRUE]
    /\ Storage({}, {}, {})
    /\ budget = Budget(0, 0, 0, 0, 0)
    /\ \E cf_bypass_mode \in {"flaresolverr_rss", "drissionpage"} :
       \E flaresolverr_url \in BOOLEAN :
          fetch_call = NewSource(cf_bypass_mode, flaresolverr_url)

NextFetch ==
    \/ fetch
    \/ \E outcome \in Outcomes : _fetch_via_flaresolverr(outcome)
    \/ \E outcome \in Outcomes : _fetch_direct(outcome)
    \/ \E refreshed_cookie \in BOOLEAN :
          _refresh_cookie_via_drissionpage(refreshed_cookie)
    \/ \E outcome \in Outcomes : RSSSource_fetch(outcome)

SpecFetch == InitFetch /\ [][NextFetch]_vars

\* every request of the call carries a timeout (discourse.py:110, 133, 177,
\* 235; rss.py:33), the browser refresh waits for clearance at most 10 s
\* (discourse.py:372, 459-462) and the sleeps between attempts are finite, so
\* a step that is enabled is eventually taken
SpecFetchFair == SpecFetch /\ WF_vars(NextFetch)

\* Matcher: subscriptions arrive by command and by button, and the matcher
\* is called on the stored keywords
KwOpen == <<"(">>
KwNested == <<"(", ".", "*", ")", "+">>
KwHuge == <<"g", "{", "4", "2", "9", "4", "9", "6", "7", "2", "9", "6", "}">>
MatcherKeywords == KeywordInputs \cup {KwOpen, KwNested, KwHuge}

InitMatcher ==
    /\ InitCore
    /\ NoSupervisor
    /\ fetch_call = <<>>
    /\ NoLater
    /\ match_call = NewMatcher
    /\ config = [source_type |-> "rss", discourse_cookie |-> FALSE,
                 cache_enabled |-> TRUE]
    /\ Storage({}, {}, {})
    /\ budget = Budget(0, MaxSubscribeSteps, 0, 0, 0)

NextMatcher ==
    \/ \E chat_id \in ChatIds, keyword \in MatcherKeywords : subscribe(chat_id, keyword)
    \/ \E chat_id \in ChatIds, keyword \in MatcherKeywords :
          handle_callback(chat_id, "quick_kw", keyword)
          \/ handle_callback(chat_id, "confirm_kw", keyword)
    \/ \E chat_id \in ChatIds, author \in AuthorInputs :
          handle_callback(chat_id, "quick_user", author)
          \/ handle_callback(chat_id, "confirm_user", author)
    \/ \E post \in PostUniverse, keyword \in MatcherKeywords, search_raises \in BOOLEAN :
          KeywordMatcher_match(post.title, keyword, search_raises)

SpecMatcher == InitMatcher /\ [][NextMatcher]_vars

\* Per-task send: calls of _send_with_retry under every response sequence
InitSend ==
    /\ InitCore
    /\ NoSupervisor
    /\ fetch_call = <<>>
    /\ match_call = <<>>
    /\ send_call = NewSender
    /\ app_caches = <<>>
    /\ in_flight = <<>>
    /\ NoEntry
    /\ config = [source_type |-> "rss", discourse_cookie |-> FALSE,
                 cache_enabled |-> TRUE]
    /\ Storage({}, {}, {})
    /\ budget = Budget(0, 0, 0, 0, 0)

NextSend ==
    \/ \E chat_id \in ChatIds : _send_with_retry(chat_id)
    \/ \E response \in Responses : send_message(response)
    \/ \E chat_id \in ChatIds : retry_delay(chat_id)

SpecSend == InitSend /\ [][NextSend]_vars

\* Dispatch: one cycle whose plan needs a second batch, a new post for
\* BATCH_SIZE + 1 subscribe-all users.  The sends of a gather are explored in
\* one completion order (they share no state but the rows each one adds) and
\* with at most MaxSendFailures failures in the cycle.
DispatchChats == 1..(BATCH_SIZE + 1)

InitDispatch ==
    /\ InitTenant
    /\ sent_count = [pr \in DispatchChats \X PostIds |-> 0]
    /\ NoSupervisor
    /\ NoCalls
    /\ config = [source_type |-> "rss", discourse_cookie |-> FALSE,
                 cache_enabled |-> TRUE]
    /\ Storage({}, DispatchChats, {})
    /\ budget = Budget(1, 0, 0, 0, 0)

InTurn(i, outcome) ==
    /\ \A j \in 1..(i - 1) : task_status[j] # "inflight"
    /\ outcome # "sent" =>
          Cardinality({j \in DOMAIN task_status : task_status[j] = "failed"})
              < MaxSendFailures

NextDispatch ==
    \/ StartCycle
    \/ \E kwOrder \in Orders(DbKeywords), authorOrder \in Orders(DbAuthors),
          expired \in ExpiredSets :
             FetchOk(<<PostA>>, kwOrder, authorOrder, expired)
    \/ StartBatch
    \/ \E i \in 1..Len(pending_tasks), outcome \in SendOutcomes :
          InTurn(i, outcome) /\ send_one(i, outcome)
    \/ EndBatch
    \/ batch_interval
    \/ CycleSuccess

SpecDispatch == InitDispatch /\ [][NextDispatch]_vars

\* Resets: failing fetch cycles and health runs that confirm an invalid
\* credential or pass, with hot reloads and restarts among them
ResetProbes ==
    {resp \in ProbeResponses :
        ~resp.exc /\ resp.status = 200 /\ resp.body \in {"ok", "errors"}}

InitReset ==
    /\ InitRuntime
    /\ config = [source_type |-> "discourse", discourse_cookie |-> TRUE,
                 cache_enabled |-> TRUE]
    /\ Storage({<<1, KwGpt>>}, {}, {})
    /\ budget = Budget(MaxAlertCycles, 0, MaxReloads, MaxRestarts, MaxHealthRuns)

NextReset ==
    \/ StartCycle
    \/ FetchFail
    \/ \E resps \in [1..3 -> ResetProbes] : _check_cookie_task(resps)
    \/ \E new_forum_config \in ConfigSpace : reload_config(new_forum_config)
    \/ _reset_state

SpecReset == InitReset /\ [][NextReset]_vars

\* Cache objects: two tenants whose AppCache objects were given one backend
\* each or the same backend
InitCache ==
    /\ InitCore
    /\ NoSupervisor
    /\ fetch_call = <<>>
    /\ match_call = <<>>
    /\ send_call = <<>>
    /\ in_flight = <<>>
    /\ NoEntry
    /\ config = [source_type |-> "rss", discourse_cookie |-> FALSE,
                 cache_enabled |-> TRUE]
    /\ Storage({}, {}, {})
    /\ budget = Budget(0, 0, 0, 0, 0)
    /\ \E _backend \in [Tenants -> BackendIds] : app_caches = NewAppCaches(_backend)

NextCache ==
    \/ \E t \in Tenants, key \in CacheNames, val \in {1, 2} : AppCache_set(t, key, val)
    \/ \E t \in Tenants, key \in CacheNames : AppCache_get(t, key)
    \/ \E t \in Tenants, key \in CacheNames : AppCache_invalidate(t, key)
    \/ \E t \in Tenants : clear_all(t)

SpecCache == InitCache /\ [][NextCache]_vars

\* Overlapping cycles: the initial fetch and the scheduler's job of one
\* tenant, over the same storage and cache
InitOverlap ==
    /\ InitCore
    /\ NoSupervisor
    /\ fetch_call = <<>>
    /\ match_call = <<>>
    /\ send_call = <<>>
    /\ app_caches = <<>>
    /\ NoEntry
    /\ in_flight = NewCycles
    /\ config = [source_type |-> "rss", discourse_cookie |-> FALSE,
                 cache_enabled |-> TRUE]
    /\ Storage({<<2, KwGpt>>}, {1}, {})
    /\ budget = Budget(MaxOverlapCycles, 0, 0, 0, 0)

NextOverlap ==
    \/ \E c \in Starters : cycle_starts(c)
    \/ \E c \in Starters, fetched \in SeqsUpTo(PostUniverse, 2),
          kwOrder \in Orders(DbKeywords), authorOrder \in Orders(DbAuthors),
          expired \in ExpiredSets :
             cycle_plans(c, fetched, kwOrder, authorOrder, expired)
    \/ \E c \in Starters, i \in 1..(2 * Cardinality(ChatIds)),
          outcome \in {"sent", "error"} : cycle_sends(c, i, outcome)
    \/ \E c \in Starters : cycle_ends(c)

SpecOverlap == InitOverlap /\ [][NextOverlap]_vars

\* Proxied session: calls of _fetch_via_flaresolverr by a source that holds a
\* session from an earlier call, or none
InitSession ==
    /\ InitCore
    /\ NoSupervisor
    /\ fetch_call = <<>>
    /\ match_call = <<>>
    /\ send_call = <<>>
    /\ app_caches = <<>>
    /\ in_flight = <<>>
    /\ run_call = <<>>
    /\ scheduling = <<>>
    /\ identity = <<>>
    /\ \E id \in {0, 1} : session_call = NewSessions(id)
    /\ config = [source_type |-> "discourse", discourse_cookie |-> TRUE,
                 cache_enabled |-> TRUE]
    /\ Storage({}, {}, {})
    /\ budget = Budget(0, 0, 0, 0, 0)

NextSession ==
    \/ \E expired, create_ok \in BOOLEAN : session_payload(expired, create_ok)
    \/ \E outcome \in SessionOutcomes, delivered, create_ok \in BOOLEAN :
          session_attempt(outcome, delivered, create_ok)

SpecSession == InitSession /\ [][NextSession]_vars

\* Entry point: MultiForumApplication.run for every set of enabled tenants
InitRun ==
    /\ InitCore
    /\ apps = <<>>
    /\ _tasks = <<>>
    /\ _running = FALSE
    /\ main_task = "none"
    /\ scenario \in [Tenants -> Behaviours]
    /\ fetch_call = <<>>
    /\ match_call = <<>>
    /\ send_call = <<>>
    /\ app_caches = <<>>
    /\ in_flight = <<>>
    /\ \E enabled \in SUBSET Tenants : run_call = NewRun(enabled)
    /\ session_call = <<>>
    /\ scheduling = <<>>
    /\ identity = <<>>
    /\ config = [source_type |-> "rss", discourse_cookie |-> FALSE,
                 cache_enabled |-> TRUE]
    /\ Storage({}, {}, {})
    /\ budget = Budget(0, 0, 0, 0, 0)

\* the blocking mode serves the loop of tenant t
Blocking(t) == Serving /\ t \in run_call.enabled

\* the supervised loops of _run_multi_async are running
InMulti == run_call.at = "multi"

NextRun ==
    \/ run
    \/ \E t \in Tenants : Application_run(t)
    \/ \E t \in Tenants : post_init(t)
    \/ \E t \in Tenants : run_polling(t)
    \/ \E t \in Tenants : stop_signal(t)
    \/ \E t \in Tenants : Blocking(t) /\ fetch_job_fires(t)
    \/ \E t \in Tenants : Blocking(t) /\ fetch_job_returns(t)
    \/ \E t \in Tenants : Blocking(t) /\ run_call.at = "polling" /\ updater_stops(t)
    \/ \E t \in Tenants : InMulti /\ start_async(t)
    \/ \E t \in Tenants : InMulti /\ initial_fetch(t)
    \/ \E t \in Tenants : InMulti /\ fetch_job_fires(t)
    \/ \E t \in Tenants : InMulti /\ fetch_job_returns(t)
    \/ \E t \in Tenants : InMulti /\ updater_stops(t)
    \/ \E t \in Tenants : InMulti /\ poll(t)
    \/ \E t \in Tenants : InMulti /\ stop_async(t)
    \/ \E t \in Tenants : InMulti /\ sleep_restart_delay(t)
    \/ \E t \in Tenants : InMulti /\ reset_for_restart(t)
    \/ \E t \in Tenants : InMulti /\ task_cancelled(t)
    \/ \E cancelled \in BOOLEAN : InMulti /\ shutdown(cancelled)
    \/ InMulti /\ gather_returns

SpecRun == InitRun /\ [][NextRun]_vars

\* Scheduling: a tenant that starts with a configuration create_source
\* accepts, and the configurations the web form can save
InitScheduling ==
    /\ InitCore
    /\ NoSupervisor
    /\ fetch_call = <<>>
    /\ match_call = <<>>
    /\ send_call = <<>>
    /\ app_caches = <<>>
    /\ in_flight = <<>>
    /\ run_call = <<>>
    /\ session_call = <<>>
    /\ identity = <<>>
    /\ \E forum_config \in {cfg \in ForumConfigs : create_source_ok(cfg)} :
          scheduling = NewScheduling(forum_config)
    /\ config = [source_type |-> "rss", discourse_cookie |-> FALSE,
                 cache_enabled |-> TRUE]
    /\ Storage({}, {}, {})
    /\ budget = Budget(0, 0, 0, 0, 0)

NextScheduling ==
    \/ add_jobs
    \/ scheduler_start
    \/ \E new_forum_config \in ForumConfigs : reschedule(new_forum_config)
    \/ scheduler_shutdown
    \/ new_scheduler

SpecScheduling == InitScheduling /\ [][NextScheduling]_vars

\* Post identity: cycles of an authenticated source over one forum
InitIdentity ==
    /\ InitCore
    /\ NoSupervisor
    /\ fetch_call = <<>>
    /\ match_call = <<>>
    /\ send_call = <<>>
    /\ app_caches = <<>>
    /\ in_flight = <<>>
    /\ run_call = <<>>
    /\ session_call = <<>>
    /\ scheduling = <<>>
    /\ \E guid_form \in GuidForms : identity = NewIdentity(guid_form)
    /\ config = [source_type |-> "discourse", discourse_cookie |-> TRUE,
                 cache_enabled |-> TRUE]
    /\ Storage({}, {}, {})
    /\ budget = Budget(0, 0, 0, 0, 0)

NextIdentity ==
    \E strategy \in {"api", "rss"}, listed \in SUBSET Topics :
        identity_cycle(strategy, listed)

SpecIdentity == InitIdentity /\ [][NextIdentity]_vars

----------------------------------------------------------------------------
(* Properties *)

RecordsFor(chat_id, post_id) ==
    {r \in db_notifications : r.chat_id = chat_id /\ r.post_id = post_id}

\* the reasons of the tasks the running cycle planned for a subscriber and post
TasksFor(chat_id, post_id) ==
    SelectSeq(pending_tasks, LAMBDA t : t.chat_id = chat_id /\ t.post_id = post_id)

\* the subscriber's stored subscriptions select the post
Interested(chat_id, post) ==
    \/ chat_id \in db_subscribe_all
    \/ post.author # None /\ <<chat_id, Lower(post.author)>> \in db_user_subs
    \/ \E row \in db_subscriptions : row[1] = chat_id /\ match(post.title, row[2])

\* C1: over any sequence of fetch cycles, at most one notification for a post
\* is successfully sent to a subscriber and at most one notification record
\* is persisted for the pair, however many keywords match and whether the
\* subscriber also follows the author or subscribes to all posts.
C1_AtMostOnce ==
    \A pr \in Pairs :
        /\ sent_count[pr] <= 1
        /\ Cardinality(RecordsFor(pr[1], pr[2])) <= 1

\* a post delivered once to a subscriber who matches it in several ways is
\* fetched again by a later cycle
C1_Witness ==
    /\ pc = "dispatch"
    /\ PostA \in Range(posts)
    /\ PostA.id \in known_before
    /\ \E c \in ChatIds :
          /\ sent_count[<<c, PostA.id>>] = 1
          /\ <<c, KwGpt>> \in db_subscriptions
          /\ <<c, AuNeo>> \in db_user_subs

\* C2: a fetched post whose id is already persisted (by an earlier cycle, or
\* earlier in the same fetched list) produces no task: every planned task is
\* for a post that was not persisted when the cycle planned, and a post that
\* occurs twice in the list is planned once.
C2_SeenPostNoTasks ==
    pc = "dispatch" =>
        \A i \in DOMAIN pending_tasks :
            /\ pending_tasks[i].post_id \notin known_before
            /\ \A j \in DOMAIN pending_tasks :
                  (j # i /\ pending_tasks[j].post_id = pending_tasks[i].post_id)
                      => pending_tasks[j].chat_id # pending_tasks[i].chat_id

\* a cycle fetches a post an earlier cycle persisted, which a subscriber
\* without a record still selects, ahead of a new post that is planned
C2_Witness ==
    /\ pc = "dispatch"
    /\ posts = <<PostB, PostA>>
    /\ PostB.id \in known_before
    /\ PostA.id \notin known_before
    /\ \E c \in ChatIds : Interested(c, PostB) /\ RecordsFor(c, PostB.id) = {}
    /\ pending_tasks # <<>>

\* C3 (as the code behaves): once the send for a subscriber and post has
\* failed, no later cycle plans a task for the pair again, no notification is
\* ever sent for it and no record is ever written: the delivery is lost.
C3_FailedNeverReplanned ==
    \A pr \in failed_pairs :
        /\ sent_count[pr] = 0
        /\ RecordsFor(pr[1], pr[2]) = {}
        /\ (pc = "dispatch" /\ pr[2] \in known_before) => TasksFor(pr[1], pr[2]) = <<>>

\* a later cycle fetches a post again whose send to a still interested
\* subscriber failed in an earlier cycle
C3_Witness ==
    /\ pc = "dispatch"
    /\ \E pr \in failed_pairs, p \in Range(posts) :
          /\ p.id = pr[2]
          /\ pr[2] \in known_before
          /\ Interested(pr[1], p)

\* C3 as stated: after a failed send, a later cycle that fetches the same post
\* again plans a task for the pair again.
C3_AsStated ==
    pc = "dispatch" =>
        \A pr \in failed_pairs, p \in Range(posts) :
            (p.id = pr[2] /\ pr[2] \in known_before /\ Interested(pr[1], p)
             /\ RecordsFor(pr[1], pr[2]) = {})
                => TasksFor(pr[1], pr[2]) # <<>>

\* C4: a notification record exists only for a pair whose send has returned
\* success; a task whose send has not completed has no record, and a failed
\* send leaves none.
C4_RecordOnlyAfterSuccess ==
    /\ \A r \in db_notifications : sent_count[<<r.chat_id, r.post_id>>] >= 1
    /\ \A i \in DOMAIN pending_tasks :
          task_status[i] \in {"pending", "inflight", "failed"}
              => RecordsFor(pending_tasks[i].chat_id, pending_tasks[i].post_id) = {}

\* one batch in which a send succeeded and was recorded while another failed
\* and a third is still in flight
C4_Witness ==
    /\ pc = "dispatch"
    /\ \E i, j, k \in DOMAIN pending_tasks :
          /\ task_status[i] = "ok"
          /\ RecordsFor(pending_tasks[i].chat_id, pending_tasks[i].post_id) # {}
          /\ task_status[j] = "failed"
          /\ task_status[k] = "inflight"

\* what the planner owes a subscriber for a new post: <<reason>> or <<>>
ExpectedReason(chat_id, post) ==
    LET held == SelectSeq(find_matching_keywords(post.title, keywords),
                          LAMBDA kw : <<chat_id, kw>> \in db_subscriptions)
    IN  IF chat_id \in db_subscribe_all THEN <<None>>
        ELSE IF post.author # None /\ <<chat_id, Lower(post.author)>> \in db_user_subs
             THEN <<AuthorTag(post)>>
        ELSE IF held # <<>> THEN <<held[1]>>
        ELSE <<>>

\* C5: for a new post the planner emits at most one task per subscriber, its
\* reason chosen in priority order: all posts, else the post's author
\* (compared case-insensitively), else the first matching keyword the
\* subscriber holds.
C5_FirstMatchPriority ==
    pc = "dispatch" =>
        \A i \in DOMAIN posts, c \in ChatIds :
            posts[i].id \notin known_before =>
                LET planned == TasksFor(c, posts[i].id)
                IN  [n \in DOMAIN planned |-> planned[n].keyword]
                        = ExpectedReason(c, posts[i])

\* the post by Neo titled GPT: one subscriber holds only the keyword, the
\* other holds the keyword and the author and is planned with reason author
C5_Witness ==
    /\ pc = "dispatch"
    /\ posts = <<PostA>>
    /\ db_subscribe_all = {}
    /\ {<<1, KwGpt>>, <<2, KwGpt>>} \subseteq db_subscriptions
    /\ db_user_subs = {<<2, AuNeo>>}
    /\ TasksFor(1, PostA.id) = <<Task(1, PostA, KwGpt)>>
    /\ TasksFor(2, PostA.id) = <<Task(2, PostA, AuthorTag(PostA))>>

\* the health run that ran last confirmed an invalid credential
ConfirmedFailure ==
    last_job[1] = "health" /\ last_job[2] = 3 /\ last_job[3] = "cookie_invalid"

\* C6: the health job alerts only on the 5th, 10th, ... confirmed consecutive
\* failure, and then exactly three times; on the others it sends nothing.
C6_AlertEveryFifth ==
    ConfirmedFailure =>
        Len(last_alerts) =
            IF cred_since_pass % _cookie_fail_threshold = 0 THEN 3 ELSE 0

\* C7 (as the code behaves): in a run of failing cycles that no successful
\* cycle, hot reload or restart interrupts, exactly one outage alert is sent,
\* at the cycle where the failure counter reaches the threshold.
C7_OneAlertPerRun ==
    outage_since_reset = IF fetch_fail_count >= _fetch_fail_threshold THEN 1 ELSE 0

\* the run went on past the threshold after its alert
C7_Witness ==
    /\ fetch_fail_count > _fetch_fail_threshold
    /\ outage_since_reset = 1
    /\ last_job[1] = "fetch_failed"
    /\ last_alerts = <<>>

\* C7 as stated: between two successful cycles at most one outage alert is
\* sent, and one has been sent whenever the counter is at the threshold.
C7_AsStated ==
    /\ outage_since_success <= 1
    /\ fetch_fail_count >= _fetch_fail_threshold => outage_since_success >= 1

\* the step is the success branch of a cycle
IsCycleSuccess == pc = "dispatch" /\ pc' = "idle" /\ budget' = budget

\* C8 (as the code behaves): a successful cycle leaves the failure counter 0
\* and the alerted flag false, and sends exactly one recovery alert if an
\* outage alert was sent since the last success, hot reload or restart, and
\* none otherwise.
C8_RecoveryAfterOutage ==
    [][IsCycleSuccess =>
          /\ fetch_fail_count' = 0
          /\ fetch_fail_notified' = FALSE
          /\ last_alerts' = IF outage_since_reset > 0
                            THEN <<"fetch_recovered">> ELSE <<>>]_vars

\* a successful cycle has just sent the recovery alert
C8_Witness ==
    /\ last_job[1] = "fetch_ok"
    /\ last_alerts = <<"fetch_recovered">>
    /\ fetch_fail_count = 0

\* C8 as stated: the recovery alert is sent exactly when an outage alert was
\* sent since the last success.
C8_AsStated ==
    [][IsCycleSuccess =>
          /\ fetch_fail_count' = 0
          /\ fetch_fail_notified' = FALSE
          /\ last_alerts' = IF outage_since_success > 0
                            THEN <<"fetch_recovered">> ELSE <<>>]_vars

\* the step is a health run that passed
IsHealthPass ==
    /\ budget'.health < budget.health
    /\ last_job'[1] = "health"
    /\ last_job'[2] < 3

\* C9 (as the code behaves): a passing health run sends exactly one
\* reassurance alert if a failure was confirmed since the last pass, hot
\* reload or restart, and nothing otherwise; the failure counter and the
\* alert round are at their initial values afterwards.
C9_ReassuranceAfterFailure ==
    [][IsHealthPass =>
          /\ last_alerts' = IF cred_since_reset > 0
                            THEN <<"cookie_recovered">> ELSE <<>>
          /\ cookie_fail_count' = 0
          /\ cookie_notify_round' = 0]_vars

\* a passing run has just sent the reassurance alert
C9_Witness ==
    /\ last_job[1] = "health"
    /\ last_job[2] < 3
    /\ last_alerts = <<"cookie_recovered">>
    /\ cookie_fail_count = 0

\* C9 as stated: the reassurance alert is sent exactly when a failure was
\* confirmed since the last pass.
C9_AsStated ==
    [][IsHealthPass =>
          /\ last_alerts' = IF cred_since_pass > 0
                            THEN <<"cookie_recovered">> ELSE <<>>
          /\ cookie_fail_count' = 0
          /\ cookie_notify_round' = 0]_vars

\* the step is a health run whose three probes failed, the last one
\* classified service_error
IsHealthServiceError ==
    /\ budget'.health < budget.health
    /\ last_job'[1] = "health"
    /\ last_job'[2] = 3
    /\ last_job'[3] = "service_error"

\* C10: a health run whose failure is classified service_error sends no admin
\* alert and leaves the failure counter and the alert round unchanged.
C10_ServiceErrorSilent ==
    [][IsHealthServiceError =>
          /\ last_alerts' = <<>>
          /\ cookie_fail_count' = cookie_fail_count
          /\ cookie_notify_round' = cookie_notify_round]_vars

\* a service-error run has just left a counter of confirmed failures standing
C10_Witness ==
    /\ last_job[1] = "health"
    /\ last_job[2] = 3
    /\ last_job[3] = "service_error"
    /\ last_alerts = <<>>
    /\ cookie_fail_count > 0

----------------------------------------------------------------------------
(* Supervision *)

\* the steps in which a fetch of tenant t returns after source.fetch raised:
\* the scheduler's job, or the initial fetch of start_async
JobRaised(t) ==
    /\ fetch_raises(t)
    /\ apps[t].job = "fetching"
    /\ apps'[t].job = "idle"
    /\ apps'[t].scheduler

InitialRaised(t) ==
    /\ fetch_raises(t)
    /\ _tasks[t].at = "initial_fetch"
    /\ _tasks'[t].at \in {"poll", "stop"}

FetchRaised(t) == JobRaised(t) \/ InitialRaised(t)

\* C11: a fetch that raised adds exactly one to the tenant's consecutive
\* failure count and leaves the tenant up: no error leaves the fetch job, the
\* job is still scheduled, is_running() still holds and the supervised loop
\* does not move towards a teardown.
C11_FetchFailureContained ==
    [][\A t \in Tenants :
         FetchRaised(t) =>
            /\ apps'[t]._fetch_fail_count = apps[t]._fetch_fail_count + 1
            /\ ~apps'[t].job_error
            /\ apps'[t].scheduler
            /\ JobRaised(t) => job_due(t)'
            /\ is_running(apps[t]) /\ is_running(apps'[t])
            /\ _tasks'[t].at =
                  IF InitialRaised(t) THEN "poll" ELSE _tasks[t].at
      ]_vars

\* two fetches of a tenant have raised, one of them the scheduler's job, and
\* the tenant is still polled as running
C11_Witness ==
    \E t \in Tenants :
        /\ fetch_raises(t)
        /\ apps[t]._fetch_fail_count = 2
        /\ apps[t].job = "idle"
        /\ is_running(apps[t])
        /\ _tasks[t].at = "poll"
        /\ _running

TornDown(task) == task.at \in {"stop", "sleep", "reset"}

\* C12 (as the code has it): a tenant whose source fetch raises on every
\* cycle is never torn down and never restarted by its supervised loop.
C12_FetchFailureNeverRestarts ==
    \A t \in Tenants :
        fetch_raises(t) => ~TornDown(_tasks[t]) /\ _tasks[t].restarts = 0

\* every fetch the bound allows has raised and the loop still polls the tenant
C12_Witness ==
    \E t \in Tenants :
        /\ fetch_raises(t)
        /\ apps[t]._fetch_fail_count = MaxTenantFails
        /\ _tasks[t].at = "poll"
        /\ _tasks[t].restarts = 0
        /\ is_running(apps[t])
        /\ _running

\* C12 as stated, over the cycles explored: a tenant whose source fetch has
\* raised on every one of MaxTenantFails cycles has by then been torn down
\* and restarted at least once.
C12_AsStated ==
    \A t \in Tenants :
        (fetch_raises(t) /\ apps[t]._fetch_fail_count = MaxTenantFails)
        => _tasks[t].restarts > 0

\* the wait before the k-th restart, as the schedule gives it
Backoff(k) == Min(initial_restart_delay * 2 ^ (k - 1), max_restart_delay)

\* C13: in a tenant's supervised loop the wait before the k-th restart is
\* min(5 * 2^(k-1), 300) seconds, and a restart goes through teardown, wait,
\* reset of the runtime state and start, in this order.
C13_BackoffSchedule ==
    [][\A t \in Tenants :
         LET old == _tasks[t]
             new == _tasks'[t]
         IN  /\ (new.at = "sleep" /\ old.at # "sleep") =>
                    /\ old.at = "stop"
                    /\ ~apps'[t].updater /\ ~apps'[t].scheduler
                    /\ new.restart_delay = Backoff(old.restarts + 1)
             /\ (new.at = "reset" /\ old.at # "reset") =>
                    /\ old.at = "sleep"
                    /\ new.waited = Backoff(old.restarts + 1)
             /\ (new.at = "start" /\ old.at # "start") =>
                    /\ old.at = "reset"
                    /\ new.restarts = old.restarts + 1
                    /\ new.waited = Backoff(new.restarts)
                    /\ apps'[t] = NewApp
             /\ new.restarts # old.restarts => new.at = "start" /\ old.at = "reset"
      ]_vars

\* a tenant has been restarted as often as the bound allows, its last wait at
\* the cap, and it has been started again
C13_Witness ==
    \E t \in Tenants :
        /\ _tasks[t].restarts = MaxSupRestarts
        /\ _tasks[t].waited = max_restart_delay
        /\ _tasks[t].at \in {"initial_fetch", "stop"}

\* C14: with one tenant that always succeeds and one that fails on every
\* start or on every cycle, the healthy tenant's fetch job keeps starting and
\* keeps returning for as long as the supervisor is not shut down.
C14_HealthyTenantKeepsFetching ==
    \A h \in Tenants : \A f \in Tenants \ {h} :
        (scenario[h] = "healthy" /\ scenario[f] \in {"start_raises", "fetch_raises"})
        => \/ <>(~_running)
           \/ /\ []<>(apps[h].job = "fetching" /\ _tasks[h].at = "poll")
              /\ []<>(apps[h].job = "idle" /\ _tasks[h].at = "poll")

\* the healthy tenant's fetch job is in flight while the failing tenant sits
\* in the backoff wait of its third restart
C14_Witness ==
    \E h \in Tenants : \E f \in Tenants \ {h} :
        /\ scenario[h] = "healthy" /\ scenario[f] = "start_raises"
        /\ apps[h].job = "fetching" /\ _tasks[h].at = "poll"
        /\ _tasks[f].at = "sleep" /\ _tasks[f].restarts = 2
        /\ _running

\* what stop_async leaves of a started tenant: bot and scheduler stopped
StoppedGracefully(app) == ~app.updater /\ ~app.scheduler /\ app.job = "idle"

\* C15: when the supervisor's run has returned after a shutdown, every tenant
\* loop has ended and every tenant's runtime has been torn down through
\* stop_async (its bot and its scheduler are stopped).
C15_GracefulShutdown ==
    main_task = "returned" =>
        \A t \in Tenants : Ended(_tasks[t]) /\ StoppedGracefully(apps[t])

----------------------------------------------------------------------------
(* Fallback chain *)

Requested(strategy) ==
    \E i \in DOMAIN fetch_call.requests : fetch_call.requests[i] = strategy

\* C16: when the proxied-session strategy returns the posts of a fetch call,
\* the call issues no direct request, no browser refresh and no plain-feed
\* fetch.
C16_ProxySuccessEndsChain ==
    fetch_call.by = "flaresolverr" =>
        /\ \A i \in DOMAIN fetch_call.requests :
              fetch_call.requests[i] = "flaresolverr"
        /\ fetch_call.at = "returned"

\* the proxy returned posts on its second attempt
C16_Witness ==
    /\ fetch_call.by = "flaresolverr"
    /\ fetch_call.at = "returned"
    /\ Len(fetch_call.requests) = 2
    /\ Len(fetch_call.errors) = 1

IsAuthError(e) == e.strategy # "rss"
AuthErrors == SelectSeq(fetch_call.errors, IsAuthError)

RefreshCount ==
    Cardinality({i \in DOMAIN fetch_call.requests : fetch_call.requests[i] = "refresh"})

BeforeRefresh(e) == \A i \in 1..e.n : fetch_call.requests[i] # "refresh"
ErrorsBeforeRefresh == SelectSeq(fetch_call.errors, BeforeRefresh)

----------------------------------------------------------------------------
(* Matcher *)

Validated(keyword) == is_regex_pattern(keyword) => validate_regex(keyword)

\* C19: every regular expression that is stored as a subscription, and every
\* one the matcher is called on, has passed validate_regex (length limit,
\* no catastrophic-backtracking shape, compiles), whichever handler stored it.
C19_OnlyValidatedPatterns ==
    /\ \A row \in db_subscriptions : Validated(row[2])
    /\ match_call.keyword # <<>> => Validated(match_call.keyword)

\* C20: every call of match returns a boolean and raises nothing; for a
\* pattern that does not compile, or whose search raises, the value is the
\* case-insensitive substring test of the pattern against the title.
C20_MatchAlwaysReturns ==
    match_call.keyword # <<>> =>
        /\ match_call.raised = "none"
        /\ match_call.result \in BOOLEAN
        /\ ( /\ is_regex_pattern(match_call.keyword)
             /\ ~RegexCompiles(match_call.keyword) \/ match_call.search_raised )
           => match_call.result =
                 Contains(Lower(match_call.title), Lower(match_call.keyword))

\* the attempts of the call in progress that have come back
Attempts == Len(send_call.responses)

\* the call is over after its last attempt
SendOver == send_call.at \in {"returned", "raised"}

\* C21: a per-task send issues at most three attempts.  An attempt is issued
\* only while every earlier one met a timeout or network error; a blocked
\* response ends the call with failure and the user flagged blocked; any other
\* platform error ends it with failure after that one attempt; a timeout or
\* network error is followed by a retry while attempts remain and by failure
\* after the third; a successful attempt ends the call with success.
C21_SendAttempts ==
    send_call.at # "none" =>
        LET rs == send_call.responses
            n  == Attempts
        IN  /\ n <= MAX_RETRIES
            /\ send_call.attempt < MAX_RETRIES
            /\ \A i \in 1..(n - 1) : rs[i] \in {"TimedOut", "NetworkError"}
            /\ send_call.at = "send" => n = send_call.attempt
            /\ n > 0 =>
                 CASE rs[n] = "sent" ->
                        send_call.at = "returned" /\ send_call.result = "True"
                   [] rs[n] = "Forbidden" ->
                        /\ send_call.at = "returned" /\ send_call.result = "False"
                        /\ send_call.chat_id \in db_blocked
                   [] rs[n] = "TelegramError" ->
                        send_call.at = "returned" /\ send_call.result = "False"
                   [] rs[n] \in {"TimedOut", "NetworkError"} ->
                        IF n < MAX_RETRIES
                        THEN send_call.at \in {"sleep", "send"}
                             /\ send_call.result = "none"
                        ELSE send_call.at = "returned" /\ send_call.result = "False"
                   [] OTHER -> send_call.at = "raised"

\* a call that failed on its third timeout, after one that flagged the other
\* user blocked on its first attempt
C21_Witness ==
    /\ send_call.at = "returned"
    /\ send_call.result = "False"
    /\ Attempts = MAX_RETRIES
    /\ send_call.responses[MAX_RETRIES] = "TimedOut"
    /\ db_blocked # {}
    /\ send_call.chat_id \notin db_blocked

\* the tasks of the running cycle whose send went out
Delivered ==
    {i \in DOMAIN pending_tasks :
        sent_count[<<pending_tasks[i].chat_id, pending_tasks[i].post_id>>] >= 1}

\* C22: a send that fails or raises never aborts the dispatch.  Every batch
\* is started with all its tasks whatever the earlier sends came to, the
\* dispatch is left only when every planned task has been sent, and the
\* delivered count then equals the number of tasks whose send succeeded.
C22_DispatchNeverAborts ==
    [][ /\ ( pc = "dispatch" /\ task_status' # task_status
             /\ \E i \in DOMAIN task_status : task_status[i] = "pending"
                                              /\ task_status'[i] = "inflight" )
           => \A j \in BatchOf(batch_start) : task_status'[j] = "inflight"
        /\ ( pc = "dispatch" /\ pc' \notin {"dispatch", "pause"} )
           => /\ \A i \in DOMAIN pending_tasks : task_status[i] \in {"ok", "failed"}
              /\ total_sent = Cardinality(Delivered) ]_vars

\* the second batch has gone out and its send has succeeded, after a first
\* batch in which one send raised and another was refused
C22_Witness ==
    /\ pc = "dispatch"
    /\ batch_start = BATCH_SIZE
    /\ Len(pending_tasks) = BATCH_SIZE + 1
    /\ task_status[BATCH_SIZE + 1] = "ok"
    /\ total_sent = BATCH_SIZE - MaxSendFailures
    /\ \E i \in 1..BATCH_SIZE : <<pending_tasks[i].chat_id, pending_tasks[i].post_id>> \in failed_pairs

\* a fetch cycle of tenant t is in progress: the initial fetch of start_async
\* or an instance of the scheduler's job
InitialFetchRunning(t) == _tasks[t].at = "initial_fetch"
JobRunning(t) == apps[t].scheduler /\ apps[t].job = "fetching"

\* C23: no two executions of a tenant's fetch cycle body overlap, the initial
\* fetch of start-up against the first scheduled tick included.
C23_NoOverlapWithinTenant ==
    \A t \in Tenants : ~(InitialFetchRunning(t) /\ JobRunning(t))

\* a step of reload_config (it spends the exploration's reload budget)
IsReload == budget'.reloads < budget.reloads

\* a fetch cycle is in progress: from the start of the fetch to the end of
\* the counter update
CycleInProgress == pc # "idle"

\* C24: a hot reload is applied to a tenant only between fetch cycles; while
\* one of its cycles is in progress no reload runs, so the configuration, the
\* source built from it, the cache and the failure counters are not replaced
\* under the cycle.
C24_ReloadOnlyBetweenCycles ==
    [][ CycleInProgress => (~IsReload /\ config' = config) ]_vars

\* a reload that ran to its end: create_source accepted the new configuration
SuccessfulReload ==
    IsReload /\ (config'.source_type = "discourse" => config'.discourse_cookie)

\* a step of _reset_state (it spends the exploration's restart budget)
IsRestart == budget'.restarts < budget.restarts

\* C25: after every successful hot reload and after every restart by the
\* supervised loop, both failure counters, the alert round and the alerted
\* flag have their initial values.
C25_ResetToInitial ==
    [][ (SuccessfulReload \/ IsRestart) =>
            /\ cookie_fail_count' = 0
            /\ cookie_notify_round' = 0
            /\ fetch_fail_count' = 0
            /\ fetch_fail_notified' = FALSE ]_vars

\* an outage alert has gone out and an invalid credential has been confirmed
\* with no success or pass since, and the counters are back at their initial
\* values
C25_Witness ==
    /\ outage_since_success >= 1
    /\ cred_since_pass >= 1
    /\ budget.reloads + budget.restarts < MaxReloads + MaxRestarts
    /\ cookie_fail_count = 0
    /\ cookie_notify_round = 0
    /\ fetch_fail_count = 0
    /\ fetch_fail_notified = FALSE

\* the step in which a cycle reads its subscriber sets and plans
IsPlan == pc = "fetching" /\ pc' = "dispatch"

\* C26: once a subscription mutation has completed, the next cycle plans
\* with what storage holds: the keyword list it reads is storage's keyword
\* list and every planned task goes to a chat that storage has subscribed.
C26_PlansFromCurrentStorage ==
    [][ IsPlan =>
          /\ Range(keywords') = DbKeywords
          /\ \A i \in DOMAIN pending_tasks' :
                LET t == pending_tasks'[i]
                IN  \/ t.chat_id \in db_subscribe_all
                    \/ \E row \in db_subscriptions \cup db_user_subs :
                          row[1] = t.chat_id ]_vars

\* what tenant t's cache object holds under each of its names
EntriesOf(layer, t) ==
    [key \in CacheNames |-> layer._cache[layer._backend[t]][_key(t, key)]]

\* the step is an operation of tenant t's cache object
CacheOpBy(t) == app_caches' # app_caches /\ app_caches'.last.by = t

\* C27: cache operations of one tenant never affect another tenant, whether
\* or not their cache objects use the same backend: a read by a tenant returns
\* only a value that tenant wrote, and a set, an invalidation or a clear_all
\* of one tenant leaves every cached entry of the other unchanged.
C27_TenantIsolation ==
    [][ \A t \in Tenants :
          CacheOpBy(t) =>
             /\ \A i \in DOMAIN app_caches'.last.result :
                   app_caches'.last.result[i].by = t
             /\ \A u \in Tenants \ {t} :
                   EntriesOf(app_caches', u) = EntriesOf(app_caches, u) ]_vars

\* C28: when two fetch cycles of a tenant see the same new post id, exactly
\* one of them plans deliveries for it, and a cycle plans deliveries for a
\* post only if its own insert of that post succeeded.
C28_PlannedOnce ==
    \A id \in PostIds :
        /\ Cardinality(in_flight.planned_by[id]) <= 1
        /\ in_flight.planned_by[id] \subseteq in_flight.inserted_by[id]
        /\ in_flight.seen_by[id] # {} => in_flight.planned_by[id] # {}

\* the initial fetch and the scheduler's job were both in flight when they
\* fetched the same new post, and both have planned
C28_Witness ==
    /\ in_flight.of["initial"].at = "dispatch"
    /\ in_flight.of["job"].at = "dispatch"
    /\ \E id \in PostIds :
          /\ {<<"initial", 1>>, <<"job", 1>>} \subseteq in_flight.seen_by[id]
          /\ Cardinality(in_flight.planned_by[id]) = 1

\* the runtime of tenant t is being started by the blocking mode
StartingUp(t) ==
    run_call.at \in {"created", "single", "post_init", "initial_fetch"}

\* a supervised loop of tenant t is alive
Supervised(t) == run_call.at = "multi" /\ ~Ended(_tasks[t])

\* the operator asked the service to stop
StopRequested == run_call.stopping \/ (run_call.at = "multi" /\ ~_running)

\* C29: every enabled tenant runs inside a supervised restart loop, also when
\* exactly one tenant is enabled: a tenant whose runtime has stopped or raised
\* while nobody asked the service to stop is in the hands of a live supervised
\* loop, which tears it down and starts it again.
C29_EveryTenantSupervised ==
    \A t \in run_call.enabled :
        (~StartingUp(t) /\ ~StopRequested /\ ~is_running(apps[t]))
            => Supervised(t)

\* the same for the runs with more than one tenant enabled
C29_MultiSupervised == run_call.at = "multi" => C29_EveryTenantSupervised

\* C30: in the proxied-session strategy no attempt (first, second or third) is
\* issued with a session id that has already been destroyed: a session-level
\* error destroys the session and the next attempt uses a fresh one.
C30_NoDestroyedSessionIssued ==
    \A k \in DOMAIN session_call.issued : ~session_call.issued[k].destroyed

----------------------------------------------------------------------------
(* Direct strategy *)

\* an attempt of _fetch_direct is issued in this step, and it fails
DirectFails ==
    /\ fetch_call.at = "direct"
    /\ Len(fetch_call'.errors) = Len(fetch_call.errors) + 1

\* the error the failed attempt met
DirectError == fetch_call'.errors[Len(fetch_call'.errors)]

\* the invocation of _fetch_direct ends in this step by raising e to its caller
DirectRaises(e) ==
    /\ ~(fetch_call'.at = "direct" /\ fetch_call'.attempt > 1)
    /\ IF fetch_call.caller = "fetch"
       THEN fetch_call'.at = "raised" /\ fetch_call'.surfaced = e
       ELSE fetch_call'.last_error = e

\* the requests of one invocation are consecutive: no four direct requests in
\* a row
AtMostThreeDirect(requests) ==
    \A i \in DOMAIN requests :
        i + _direct_retries \in DOMAIN requests =>
            \E j \in i..(i + _direct_retries) : requests[j] # "direct"

\* C31: one invocation of the direct strategy issues at most 3 requests: after
\* a failure that is not a 403 it retries while attempts remain, and after a
\* 403 it issues no further request in that invocation and raises that error.
C31_DirectInvocation ==
    [][ /\ AtMostThreeDirect(fetch_call'.requests)
        /\ DirectFails =>
             IF DirectError.kind # "403" /\ fetch_call.attempt < _direct_retries
             THEN /\ fetch_call'.at = "direct"
                  /\ fetch_call'.attempt = fetch_call.attempt + 1
                  /\ fetch_call'.caller = fetch_call.caller
             ELSE DirectRaises(DirectError) ]_vars

\* an invocation retried after a timeout and then met a 403 on its second
\* attempt, which it raised
C31_Witness ==
    /\ fetch_call.at = "raised"
    /\ fetch_call.caller = "fetch"
    /\ fetch_call.requests = <<"direct", "direct">>
    /\ fetch_call.errors[1].kind = "timeout"
    /\ fetch_call.surfaced = fetch_call.errors[2]
    /\ fetch_call.surfaced.kind = "403"

----------------------------------------------------------------------------
(* Batches *)

\* the tasks whose send starts, and completes, in this step
SendsStarted ==
    {i \in DOMAIN task_status : task_status[i] = "pending"
                                /\ task_status'[i] = "inflight"}
SendsCompleted ==
    {i \in DOMAIN task_status : task_status[i] = "inflight"
                                /\ task_status'[i] \in {"ok", "failed"}}

\* the dispatch of one cycle goes on in this step
Dispatching == pc \in {"dispatch", "pause"} /\ pc' \in {"dispatch", "pause"}

\* C32: in one cycle every planned task is sent exactly once, in batches of at
\* most 25 tasks taken in planning order; the sends of batch k+1 start only
\* after every send of batch k has completed, and a pause separates
\* consecutive batches but none follows the last batch.
C32_BatchedDispatch ==
    [][ /\ Dispatching =>
             /\ pending_tasks' = pending_tasks
             /\ \A i \in DOMAIN task_status :
                   task_status'[i] # task_status[i] =>
                       i \in SendsStarted \cup SendsCompleted
             /\ SendsStarted # {} =>
                   /\ SendsStarted = BatchOf(batch_start)
                   /\ SendsStarted =
                         (batch_start + 1)..Min(batch_start + BATCH_SIZE,
                                                Len(pending_tasks))
                   /\ Cardinality(SendsStarted) <= BATCH_SIZE
                   /\ \A j \in 1..batch_start : task_status[j] \in {"ok", "failed"}
                   /\ pc = "dispatch"
             /\ batch_start' # batch_start =>
                   /\ batch_start' = batch_start + BATCH_SIZE
                   /\ \A j \in 1..Min(batch_start', Len(pending_tasks)) :
                         task_status[j] \in {"ok", "failed"}
                   /\ pc' = IF batch_start' < Len(pending_tasks)
                            THEN "pause" ELSE "dispatch"
             /\ pc = "pause" => pc' = "dispatch" /\ task_status' = task_status
                                /\ batch_start' = batch_start
        /\ (pc = "dispatch" /\ pc' = "idle") =>
             \A i \in DOMAIN pending_tasks : task_status[i] \in {"ok", "failed"}
      ]_vars

\* the last batch of a cycle with two batches has completed, the pause
\* between the two is over and none follows
C32_Witness ==
    /\ pc = "dispatch"
    /\ Len(pending_tasks) = BATCH_SIZE + 1
    /\ batch_start = 2 * BATCH_SIZE
    /\ \A i \in DOMAIN pending_tasks : task_status[i] \in {"ok", "failed"}

----------------------------------------------------------------------------
(* Scheduled jobs *)

\* reload_config runs in this step
IsJobReload == scheduling'.reloads = scheduling.reloads + 1

\* the reload changes the interval of the fetch job, of the health job
FetchIntervalChanged ==
    scheduling'.forum_config.fetch_interval
        # scheduling.forum_config.fetch_interval
CheckIntervalChanged ==
    scheduling'.forum_config.cookie_check_interval
        # scheduling.forum_config.cookie_check_interval

\* the reload changes that interval and nothing else
OnlyFetchIntervalChanged ==
    /\ FetchIntervalChanged
    /\ scheduling'.forum_config =
          [scheduling.forum_config EXCEPT
              !.fetch_interval = scheduling'.forum_config.fetch_interval]
OnlyCheckIntervalChanged ==
    /\ CheckIntervalChanged
    /\ scheduling'.forum_config =
          [scheduling.forum_config EXCEPT
              !.cookie_check_interval =
                  scheduling'.forum_config.cookie_check_interval]

\* the fetch job was removed and added again with the new interval
FetchJobReadded ==
    /\ scheduling'.data_fetch.no > scheduling.data_fetch.no
    /\ scheduling'.data_fetch.seconds = scheduling'.forum_config.fetch_interval

\* C33: a hot reload that changes only the fetch interval removes and re-adds
\* only the fetch job and leaves the credential-health job untouched, and one
\* that changes only the credential-check interval leaves the fetch job
\* untouched; a reload that changes neither interval, or that happens while
\* scheduling is not active, changes no job.
C33_ReloadTouchesOnlyChangedJob ==
    [][ IsJobReload =>
          /\ (scheduling.running /\ OnlyFetchIntervalChanged) =>
                /\ FetchJobReadded
                /\ scheduling'.cookie_check = scheduling.cookie_check
          /\ (scheduling.running /\ OnlyCheckIntervalChanged) =>
                scheduling'.data_fetch = scheduling.data_fetch
          /\ (~scheduling.running
              \/ (~FetchIntervalChanged /\ ~CheckIntervalChanged)) =>
                /\ scheduling'.data_fetch = scheduling.data_fetch
                /\ scheduling'.cookie_check = scheduling.cookie_check ]_vars

\* the same for the reloads create_source lets through
C33_CompletedReloads ==
    [][ (IsJobReload /\ create_source_ok(scheduling'.forum_config)) =>
          /\ (scheduling.running /\ OnlyFetchIntervalChanged) =>
                /\ FetchJobReadded
                /\ scheduling'.cookie_check = scheduling.cookie_check
          /\ (scheduling.running /\ OnlyCheckIntervalChanged) =>
                scheduling'.data_fetch = scheduling.data_fetch
          /\ (~scheduling.running
              \/ (~FetchIntervalChanged /\ ~CheckIntervalChanged)) =>
                /\ scheduling'.data_fetch = scheduling.data_fetch
                /\ scheduling'.cookie_check = scheduling.cookie_check ]_vars

\* C34: at every moment while a tenant's scheduling is active, including after
\* any sequence of hot reloads that change the source type or the check
\* interval, a credential-health job is scheduled if and only if the current
\* source needs a credential and the current check interval is greater than 0.
\* (Stated for the configurations create_source accepts, where the current
\* source is the one forum_config describes.)
C34_HealthJobIffWanted ==
    (scheduling.running /\ create_source_ok(scheduling.forum_config)) =>
        (scheduling.cookie_check # NoJob
            <=> cookie_check_wanted(scheduling.forum_config))

\* the same before the first hot reload
C34_UntilFirstReload ==
    (scheduling.running /\ scheduling.reloads = 0) =>
        (scheduling.cookie_check # NoJob
            <=> cookie_check_wanted(scheduling.forum_config))

----------------------------------------------------------------------------
(* Post identity *)

\* C35: the same forum item gets the same Post.id in every fetch, whichever
\* strategy of the chain produced it (the JSON API or the degraded plain-feed
\* fallback), so a post first seen in a degraded cycle is recognised as
\* already known when a later cycle fetches it through the API, and the
\* reverse: no topic has two ids, and none is new to the pipeline twice.
C35_StableIdAcrossStrategies ==
    \A topic \in Topics :
        /\ Cardinality(identity.ids[topic]) <= 1
        /\ identity.new[topic] <= 1

\* the same within one strategy: a topic only ever fetched through the API,
\* or only ever through the feed, has one id and is new once
C35_StableIdWithinStrategy ==
    \A topic \in Topics :
        Cardinality(identity.by[topic]) <= 1 =>
            /\ Cardinality(identity.ids[topic]) <= 1
            /\ identity.new[topic] <= 1

----------------------------------------------------------------------------
(* Requests of one fetch call *)

Count(strategy) ==
    Cardinality({i \in DOMAIN fetch_call.requests :
                    fetch_call.requests[i] = strategy})

\* the call has returned posts or raised an error
FetchEnded == fetch_call.at \in {"returned", "raised"}

ProxyMode ==
    fetch_call.cf_bypass_mode # "drissionpage" /\ fetch_call.flaresolverr_url
BrowserRefreshMode == fetch_call.cf_bypass_mode = "drissionpage"

\* the plain feed is fetched at most once, and nothing is requested after it
FeedLast ==
    \A i \in DOMAIN fetch_call.requests :
        fetch_call.requests[i] = "rss" => i = Len(fetch_call.requests)

\* the direct invocations are the maximal runs of direct requests
DirectInvocations ==
    Cardinality({i \in DOMAIN fetch_call.requests :
                    /\ fetch_call.requests[i] = "direct"
                    /\ (i = 1 \/ fetch_call.requests[i - 1] # "direct")})

\* the direct invocation of the first attempt precedes every refresh
FirstDirectBeforeRefresh ==
    fetch_call.requests # <<>> => fetch_call.requests[1] = "direct"

BoundedRequests ==
    /\ FeedLast
    /\ ProxyMode =>
          /\ Count("flaresolverr") <= max_retries
          /\ Count("direct") = 0 /\ Count("refresh") = 0
    /\ BrowserRefreshMode =>
          /\ Count("flaresolverr") = 0
          /\ FirstDirectBeforeRefresh
          /\ Count("refresh") <= refresh_rounds
          /\ DirectInvocations <= 1 + Count("refresh")
          /\ AtMostThreeDirect(fetch_call.requests)
    /\ ~ProxyMode /\ ~BrowserRefreshMode =>
          /\ Count("direct") = Len(fetch_call.requests)
          /\ Len(fetch_call.requests) <= _direct_retries

\* C36: every call of DiscourseSource.fetch ends, returning posts or raising,
\* after a bounded number of requests: with the proxy at most 3 proxied
\* requests and then at most one fetch of the plain feed; in drissionpage mode
\* at most one direct invocation, then at most 3 refreshes each followed by at
\* most one direct invocation, then at most one fetch of the plain feed.
C36_FetchTerminates == []BoundedRequests /\ <>FetchEnded

\* the longest call: three direct attempts ending in a 403, three refresh
\* rounds of three direct attempts each, and the plain feed failing
C36_Witness ==
    /\ BrowserRefreshMode
    /\ fetch_call.at = "raised"
    /\ Count("refresh") = refresh_rounds
    /\ DirectInvocations = 1 + refresh_rounds
    /\ Count("direct") = _direct_retries * (1 + refresh_rounds)
    /\ Count("rss") = 1

----------------------------------------------------------------------------
(* Probes of a credential-health run *)

\* the step is a credential-health run of a discourse tenant
IsHealthRun ==
    /\ budget'.health < budget.health
    /\ last_job'[1] = "health"

AllFailed(probes) == Len(probes) = 3 /\ \A i \in 1..3 : probes[i] # "valid"

\* the run confirmed a failure: it took the `fail_count == 3` branch
RunConfirmedFailure == last_job'[2] = 3

\* what the run did with a failure classified cookie_invalid
EscalatedInvalid ==
    /\ cookie_fail_count' = cookie_fail_count + 1
    /\ last_alerts' = <<"cookie_invalid_1", "cookie_invalid_2", "cookie_invalid_3">>

\* what the run did with a failure classified service_error
SilentServiceError ==
    /\ cookie_fail_count' = cookie_fail_count
    /\ last_alerts' = <<>>

\* C37: a credential-health run confirms a failure only when all three of its
\* probes fail, it stops probing at the first valid probe, and a confirmed
\* failure is classified service_error or cookie_invalid by the error kind of
\* the third probe alone, whatever the first two reported.
C37_ThirdProbeClassifies ==
    [][IsHealthRun =>
          LET probes == last_job'[4]
          IN  /\ Len(probes) \in 1..3
              /\ \A i \in 1..(Len(probes) - 1) : probes[i] # "valid"
              /\ Len(probes) < 3 => probes[Len(probes)] = "valid"
              /\ RunConfirmedFailure <=> AllFailed(probes)
              /\ ~AllFailed(probes) =>
                    /\ cookie_fail_count' \in {0, cookie_fail_count}
                    /\ last_alerts' \in {<<>>, <<"cookie_recovered">>}
              /\ AllFailed(probes) =>
                    IF probes[3] = "service_error"
                    THEN SilentServiceError
                    ELSE probes[3] = "cookie_invalid" /\ EscalatedInvalid]_vars

\* a run whose first two probes met service errors escalated on the third
\* probe's invalid credential
C37_Witness ==
    /\ last_job[1] = "health"
    /\ last_job[4] = <<"service_error", "service_error", "cookie_invalid">>
    /\ last_alerts = <<"cookie_invalid_1", "cookie_invalid_2", "cookie_invalid_3">>
    /\ cookie_fail_count > 0

----------------------------------------------------------------------------
(* Cycles that raise *)

\* the step ends a cycle by an exception: source.fetch raised, or a later
\* statement of the cycle did
IsCycleRaise ==
    /\ pc # "idle"
    /\ pc' = "idle"
    /\ last_job'[1] \in {"fetch_failed", "cycle_raised"}

\* the step ends a cycle
IsCycleEnd == pc # "idle" /\ pc' = "idle"

\* C38: fetch_fail_count counts every cycle that raised, whatever raised: an
\* exception after a successful source fetch (reading the subscriber sets,
\* persisting a post, planning, dispatching) increments the counter by one
\* and skips the success reset, exactly as a failed source fetch does; every
\* other cycle ends in the success branch.
C38_EveryRaisingCycleCounts ==
    [][ /\ IsCycleRaise =>
             /\ fetch_fail_count' = fetch_fail_count + 1
             /\ fetch_fail_notified' =
                   (fetch_fail_notified
                       \/ fetch_fail_count + 1 >= _fetch_fail_threshold)
             /\ last_alerts' =
                   IF fetch_fail_count + 1 >= _fetch_fail_threshold
                      /\ ~fetch_fail_notified
                   THEN <<"fetch_outage">> ELSE <<>>
        /\ IsCycleEnd /\ ~IsCycleRaise =>
             /\ last_job'[1] = "fetch_ok"
             /\ fetch_fail_count' = 0 ]_vars

\* a cycle whose fetch succeeded and whose post was persisted raised, and
\* took the counter to the threshold and the outage alert
C38_Witness ==
    /\ last_job[1] = "cycle_raised"
    /\ db_posts # {}
    /\ fetch_fail_count = _fetch_fail_threshold
    /\ last_alerts = <<"fetch_outage">>

----------------------------------------------------------------------------
(* Restart backoff over the life of a supervised loop *)

\* C39: within one supervised loop the restart backoff never decreases: no
\* step of the loop, of the tenant's jobs or of its healthy running resets it
\* to 5 seconds, so once it has reached 300 seconds it stays there and every
\* later restart of that tenant waits 300 seconds.
C39_BackoffNeverDecreases ==
    [][\A t \in Tenants :
         LET old == _tasks[t]
             new == _tasks'[t]
         IN  /\ new.restart_delay >= old.restart_delay
             /\ old.restart_delay = max_restart_delay =>
                    new.restart_delay = max_restart_delay
             /\ new.waited # old.waited => new.waited = old.restart_delay
             /\ (old.waited = max_restart_delay /\ new.at = "reset"
                 /\ old.at # "reset") => new.waited = max_restart_delay
      ]_vars

\* a tenant whose backoff has reached the cap was restarted, passed its
\* initial fetch and has its fetch job running with the updater up, and the
\* backoff is still at the cap
C39_Witness ==
    \E t \in Tenants :
        /\ _tasks[t].restart_delay = max_restart_delay
        /\ _tasks[t].waited = max_restart_delay
        /\ _tasks[t].at = "poll"
        /\ is_running(apps[t])
        /\ apps[t].job = "fetching"
        /\ apps[t]._fetch_fail_count = 0

----------------------------------------------------------------------------
(* Blocked flag *)

\* the running cycle has dispatched every task it planned
DispatchDone == pc = "dispatch" /\ batch_start >= Len(pending_tasks)

\* C40: the planner's output does not depend on the blocked flag: for every
\* new post of a cycle a subscriber is planned a task exactly when a stored
\* subscription of theirs selects the post, whether or not an earlier send
\* flagged them blocked, and the task of a flagged subscriber is sent like
\* any other.
C40_BlockedStillPlanned ==
    pc \in {"dispatch", "pause"} =>
        \A i \in DOMAIN posts, c \in ChatIds :
            posts[i].id \notin known_before =>
                /\ TasksFor(c, posts[i].id) # <<>> <=> Interested(c, posts[i])
                /\ DispatchDone =>
                      \A n \in DOMAIN pending_tasks :
                          pending_tasks[n].chat_id = c
                              => task_status[n] \in {"ok", "failed"}

\* a keyword subscriber whose send for one post was refused, and who is
\* flagged blocked, has been sent the next new post by a later cycle
C40_Witness ==
    /\ pc = "dispatch"
    /\ \E c \in db_blocked, n \in DOMAIN pending_tasks, p \in known_before :
          /\ c \notin db_subscribe_all
          /\ <<c, p>> \in failed_pairs
          /\ pending_tasks[n].chat_id = c
          /\ pending_tasks[n].post_id \notin known_before
          /\ task_status[n] = "ok"

====
